---- MODULE Spec2Model ----
(***************************************************************************)
(* The reconciliation pipeline of just-media: MediaItemProcessor           *)
(* (catalog/services/media_item_processor.py) acting on the MediaItem,     *)
(* Genre, Country and MediaItemSourceMetadata tables of catalog/models.py. *)
(* A Python dict is a function whose DOMAIN is its key set; a table is a   *)
(* sequence of rows indexed by primary key (the pipeline never deletes a   *)
(* MediaItem) or a set of unique names.                                    *)
(***************************************************************************)
EXTENDS Integers, Sequences, FiniteSets, TLC

VARIABLES
    items,          \* MediaItem table: items[pk] is the row with primary key pk
    metadata,       \* MediaItemSourceMetadata of the Kodik source: pk -> source_last_updated_at
    genre_table,    \* Genre table: the set of stored names
    country_table,  \* Country table: the set of stored names
    pc,             \* where the caller stands: "idle", "pending", "done"
    call,           \* the arguments of the process_api_item call in hand
    result,         \* what that call returned
    run,            \* the parse_kodik run in hand: the local variables of handle
    sync,           \* the tables update_translations writes, and its run in hand
    history         \* the (record, entity) pairs process_api_item has accepted, where kept

vars == <<items, metadata, genre_table, country_table, pc, call, result, run, sync, history>>

----------------------------------------------------------------------------
(* Values *)

None == "<None>"    \* Python None, SQL NULL
Empty == ""         \* the empty string

\* Python truthiness of an Optional[str]: `if v`
Truthy(v) == v \notin {None, Empty}

\* dict.get(key, default)
Get(d, key, default) == IF key \in DOMAIN d THEN d[key] ELSE default

\* {k: v for k, v in d.items() if k in keys}
Restrict(d, keys) == [k \in (DOMAIN d) \cap keys |-> d[k]]

\* d.copy() followed by d.update(e)
Updated(d, e) == [k \in (DOMAIN d) \cup (DOMAIN e) |-> IF k \in DOMAIN e THEN e[k] ELSE d[k]]

id_fields == <<"kinopoisk_id", "imdb_id", "shikimori_id", "mydramalist_id">>

IdFields == {id_fields[i] : i \in DOMAIN id_fields}

\* source_last_updated_at IS NULL
NullTime == 0

MaxItems == 2       \* MediaItem rows the table may hold
MaxTime == 2        \* API timestamps are 1..MaxTime

Times == 1..MaxTime

----------------------------------------------------------------------------
(* Names of genres and countries: str.strip() and str.lower() *)

Strip(name) ==
    CASE name = " Action " -> "Action"
      [] name = " " -> Empty
      [] OTHER -> name

Lower(name) ==
    CASE name = "Action" -> "action"
      [] name = " Action " -> " action "
      [] name = "Drama" -> "drama"
      [] name = "USA" -> "usa"
      [] name = "Japan" -> "japan"
      [] OTHER -> name

----------------------------------------------------------------------------
(* Identity resolution *)

\* Optional[MediaItem]: no entity
NoEntity == 0

\* _build_exact_match_query, evaluated on one row: an API value of None
\* requires the column to be NULL, any other value requires equality
BuildExactMatchQuery(api_ids, row) ==
    \A f \in IdFields :
        IF api_ids[f] = None THEN row[f] = None ELSE row[f] = api_ids[f]

\* the rows MediaItem.objects.get(exact_match_query) finds
ExactMatches(rows, api_ids) ==
    {pk \in DOMAIN rows : BuildExactMatchQuery(api_ids, rows[pk])}


\* _find_exact_match taking the first row, as filter(...).first() would
FindFirstExactMatch(rows, api_ids) ==
    LET found == ExactMatches(rows, api_ids) IN
    IF found = {} THEN [raised |-> FALSE, media_item |-> NoEntity]
    ELSE [raised |-> FALSE, media_item |-> CHOOSE pk \in found : \A q \in found : pk <= q]

\* _find_exact_match: what .get() does with the rows found
FindExactMatch(rows, api_ids) ==
    LET found == ExactMatches(rows, api_ids) IN
    IF found = {} THEN [raised |-> FALSE, media_item |-> NoEntity]
    ELSE IF Cardinality(found) = 1
         THEN [raised |-> FALSE, media_item |-> CHOOSE pk \in found : TRUE]
         ELSE [raised |-> TRUE, media_item |-> NoEntity]

\* candidate_query of _find_subset_match, evaluated on one row: shares an id
\* with the record, and holds no other non-null value in a field the record fills
CandidateQuery(api_non_empty_ids, row) ==
    /\ \E f \in DOMAIN api_non_empty_ids : row[f] = api_non_empty_ids[f]
    /\ \A f \in DOMAIN api_non_empty_ids :
          (~(row[f] # None)) \/ row[f] = api_non_empty_ids[f]

\* item_non_empty_ids
ItemNonEmptyIds(row) == [f \in {g \in IdFields : Truthy(row[g])} |-> row[f]]

\* is_subset comparing only the fields the record fills
IsConsistent(item_non_empty_ids, api_non_empty_ids) ==
    \A f \in DOMAIN item_non_empty_ids :
        f \in DOMAIN api_non_empty_ids => api_non_empty_ids[f] = item_non_empty_ids[f]

\* is_subset
IsSubset(item_non_empty_ids, api_non_empty_ids) ==
    \A f \in DOMAIN item_non_empty_ids :
        f \in DOMAIN api_non_empty_ids /\ api_non_empty_ids[f] = item_non_empty_ids[f]

\* api_has_new_id
ApiHasNewId(item_non_empty_ids, api_non_empty_ids) ==
    \E f \in DOMAIN api_non_empty_ids : f \notin DOMAIN item_non_empty_ids

\* current_priority
CurrentPriority(row, api_non_empty_ids) ==
    LET own == IF Truthy(row.kinopoisk_id) \/ Truthy(row.imdb_id) THEN 1 ELSE 0 IN
    IF own = 0 /\ ("kinopoisk_id" \in DOMAIN api_non_empty_ids
                   \/ "imdb_id" \in DOMAIN api_non_empty_ids)
    THEN -1 ELSE own

\* MediaItem.Meta.ordering = ['-updated_at', 'title']: the order in which a
\* queryset yields rows.  updated_at is written once, at creation (every later
\* save names update_fields without it), so it is distinct on every row and the
\* title never decides.
RECURSIVE Ordering(_, _)
Ordering(rows, pks) ==
    IF pks = {} THEN <<>>
    ELSE LET first == CHOOSE pk \in pks :
                          \A q \in pks : rows[q].updated_at <= rows[pk].updated_at
         IN <<first>> \o Ordering(rows, pks \ {first})

\* a candidate the loop of _find_subset_match does not `continue` past
IsValidSubset(row, api_non_empty_ids) ==
    LET item_non_empty_ids == ItemNonEmptyIds(row) IN
    /\ DOMAIN item_non_empty_ids # {}
    /\ IsSubset(item_non_empty_ids, api_non_empty_ids)
    /\ ApiHasNewId(item_non_empty_ids, api_non_empty_ids)


\* the candidates loop with `>=` for `>`: a later candidate of equal priority
\* replaces the earlier one
RECURSIVE BestMatchLast(_, _, _, _, _)
BestMatchLast(rows, candidates, api_non_empty_ids, best_match, highest_priority_found) ==
    IF candidates = <<>> THEN best_match
    ELSE LET pk == Head(candidates)
             current_priority == CurrentPriority(rows[pk], api_non_empty_ids)
         IN IF IsValidSubset(rows[pk], api_non_empty_ids)
               /\ current_priority >= highest_priority_found
            THEN BestMatchLast(rows, Tail(candidates), api_non_empty_ids, pk, current_priority)
            ELSE BestMatchLast(rows, Tail(candidates), api_non_empty_ids,
                               best_match, highest_priority_found)

\* the `for item in candidates` loop: best_match and highest_priority_found
RECURSIVE BestMatch(_, _, _, _, _)
BestMatch(rows, candidates, api_non_empty_ids, best_match, highest_priority_found) ==
    IF candidates = <<>> THEN best_match
    ELSE LET pk == Head(candidates)
             current_priority == CurrentPriority(rows[pk], api_non_empty_ids)
         IN IF IsValidSubset(rows[pk], api_non_empty_ids)
               /\ current_priority > highest_priority_found
            THEN BestMatch(rows, Tail(candidates), api_non_empty_ids, pk, current_priority)
            ELSE BestMatch(rows, Tail(candidates), api_non_empty_ids,
                           best_match, highest_priority_found)

\* _find_subset_match
FindSubsetMatch(rows, api_non_empty_ids) ==
    IF DOMAIN api_non_empty_ids = {} THEN NoEntity
    ELSE LET candidates ==
                 {pk \in DOMAIN rows : CandidateQuery(api_non_empty_ids, rows[pk])}
         IN BestMatch(rows, Ordering(rows, candidates), api_non_empty_ids, NoEntity, -1)

----------------------------------------------------------------------------
(* Genre and country relations *)

\* what the database does to one call: nothing, or an exception out of the
\* get_or_create of the genre/country sub-step (raised inside get_or_create's
\* own savepoint, the enclosing transaction stays usable), or out of the
\* related manager's set() (which marks the enclosing transaction for
\* rollback), or out of the metadata get_or_create that opens _update_item
Faults == {"none", "genres_get_or_create", "countries_get_or_create",
           "genres_set", "countries_set", "metadata_get_or_create"}


\* valid_names without the strip
ValidNamesUnstripped(names) ==
    SelectSeq(names, LAMBDA n : n # Empty)

\* valid_names
ValidNames(names) ==
    SelectSeq([i \in DOMAIN names |-> Strip(names[i])], LAMBDA n : n # Empty)

\* the `for name in valid_names` loop of _get_or_create_m2m;
\* get_or_create(name__iexact=name) raises when the database fails or when it
\* finds several rows
RECURSIVE CreateMissing(_, _, _, _, _)
CreateMissing(table, valid_names, existing_keys, target_objects, db_raises) ==
    IF valid_names = <<>>
    THEN [table |-> table, target_objects |-> target_objects, raised |-> FALSE]
    ELSE LET name == Head(valid_names)
             found == {obj \in table : Lower(obj) = Lower(name)}
         IN IF Lower(name) \in existing_keys
            THEN CreateMissing(table, Tail(valid_names), existing_keys,
                               target_objects, db_raises)
            ELSE IF db_raises \/ Cardinality(found) > 1
            THEN [table |-> table, target_objects |-> target_objects, raised |-> TRUE]
            ELSE IF found = {}
            THEN CreateMissing(table \cup {name}, Tail(valid_names), existing_keys,
                               target_objects \cup {name}, db_raises)
            ELSE CreateMissing(table, Tail(valid_names), existing_keys,
                               target_objects \cup found, db_raises)

\* _get_or_create_m2m
GetOrCreateM2M(table, names, db_raises) ==
    LET valid_names == ValidNames(names)
        existing_qs == {obj \in table : \E i \in DOMAIN valid_names : valid_names[i] = obj}
        existing_keys == {Lower(obj) : obj \in existing_qs}
        existing_values == {CHOOSE obj \in existing_qs : Lower(obj) = k : k \in existing_keys}
    IN IF valid_names = <<>>
       THEN [table |-> table, target_objects |-> {}, raised |-> FALSE]
       ELSE CreateMissing(table, valid_names, existing_keys, existing_values, db_raises)

\* the two set() calls of _update_m2m_relations on the row `media_item`, given
\* what _get_or_create_m2m returned for the genres (g) and the countries (c);
\* `written` names the relations whose set() ran, `broken` tells that the
\* transaction was marked for rollback
SetRelations(media_item, countries0, fault, g, c) ==
    LET set_genres == media_item.genres # g.target_objects
        item1 == IF set_genres THEN [media_item EXCEPT !.genres = g.target_objects]
                 ELSE media_item
        set_countries == item1.countries # c.target_objects
        item2 == IF set_countries THEN [item1 EXCEPT !.countries = c.target_objects]
                 ELSE item1
        unchanged == [media_item |-> media_item, genre_table |-> g.table,
                      country_table |-> countries0, m2m_changed |-> FALSE,
                      written |-> {}, raised |-> TRUE, broken |-> FALSE]
    IN IF g.raised THEN unchanged
       ELSE IF set_genres /\ fault = "genres_set"
       THEN [unchanged EXCEPT !.broken = TRUE]
       ELSE IF c.raised
       THEN [unchanged EXCEPT !.media_item = item1, !.country_table = c.table,
                              !.written = IF set_genres THEN {"genres"} ELSE {}]
       ELSE IF set_countries /\ fault = "countries_set"
       THEN [unchanged EXCEPT !.media_item = item1, !.country_table = c.table,
                              !.written = IF set_genres THEN {"genres"} ELSE {},
                              !.broken = TRUE]
       ELSE [media_item |-> item2, genre_table |-> g.table, country_table |-> c.table,
             m2m_changed |-> set_genres \/ set_countries,
             written |-> (IF set_genres THEN {"genres"} ELSE {})
                         \cup (IF set_countries THEN {"countries"} ELSE {}),
             raised |-> FALSE, broken |-> FALSE]

\* _update_m2m_relations
UpdateM2MRelations(media_item, genres0, countries0, genre_names, country_names, fault) ==
    SetRelations(media_item, countries0, fault,
                 GetOrCreateM2M(genres0, genre_names, fault = "genres_get_or_create"),
                 GetOrCreateM2M(countries0, country_names, fault = "countries_get_or_create"))

----------------------------------------------------------------------------
(* Persistence *)

\* a MediaItem table without its unique constraints
NoIntegrityError(rows, pk, row, fields) == FALSE

\* unique constraints that are checked when a row is inserted, not when a
\* stored row is updated
IntegrityErrorOnInsert(rows, pk, row, fields) ==
    /\ pk \notin DOMAIN rows
    /\ \E f \in IdFields \cap fields :
          /\ row[f] # None
          /\ \E q \in DOMAIN rows : rows[q][f] = row[f]

\* the unique constraints of MediaItem: saving `row` as primary key pk with the
\* columns `fields` written raises IntegrityError when another row already
\* holds the same non-null value in one of the four id columns
IntegrityError(rows, pk, row, fields) ==
    \E f \in IdFields \cap fields :
        /\ row[f] # None
        /\ \E q \in DOMAIN rows : q # pk /\ rows[q][f] = row[f]

\* setattr(media_item, field, value) for every field of fields_to_update
SetAttrs(row, fields_to_update) ==
    [f \in DOMAIN row |-> IF f \in DOMAIN fields_to_update THEN fields_to_update[f] ELSE row[f]]


\* MediaItem.objects.create given the ids and the title only
NewMediaItemIdsOnly(rows, media_item_data) ==
    SetAttrs([title |-> Empty, description |-> None,
              kinopoisk_id |-> None, imdb_id |-> None,
              shikimori_id |-> None, mydramalist_id |-> None,
              genres |-> {}, countries |-> {}, updated_at |-> Len(rows) + 1],
             Restrict(media_item_data, DOMAIN media_item_data \cap (IdFields \cup {"title"})))

\* MediaItem(**media_item_data): columns not named take the model's default;
\* updated_at is auto_now, a clock that advances with every row created
NewMediaItem(rows, media_item_data) ==
    SetAttrs([title |-> Empty, description |-> None,
              kinopoisk_id |-> None, imdb_id |-> None,
              shikimori_id |-> None, mydramalist_id |-> None,
              genres |-> {}, countries |-> {}, updated_at |-> Len(rows) + 1],
             media_item_data)


\* _update_metadata leaving the timestamp of a new metadata row null
UpdateMetadataUnstamped(meta, pk, api_updated_at, meta_created, broken) ==
    IF broken THEN meta
    ELSE IF pk \notin DOMAIN meta
    THEN [k \in (DOMAIN meta) \cup {pk} |-> IF k = pk THEN NullTime ELSE meta[k]]
    ELSE IF meta[pk] # api_updated_at \/ meta_created
    THEN [meta EXCEPT ![pk] = api_updated_at]
    ELSE meta


\* _update_metadata applying newer-wins to the timestamp itself
UpdateMetadataForward(meta, pk, api_updated_at, meta_created, broken) ==
    IF broken THEN meta
    ELSE IF pk \notin DOMAIN meta
    THEN [k \in (DOMAIN meta) \cup {pk} |-> IF k = pk THEN api_updated_at ELSE meta[k]]
    ELSE IF api_updated_at > meta[pk] \/ meta_created
    THEN [meta EXCEPT ![pk] = api_updated_at]
    ELSE meta

\* _update_metadata; inside a transaction already marked for rollback every
\* query raises, which the method logs and swallows
UpdateMetadata(meta, pk, api_updated_at, meta_created, broken) ==
    IF broken THEN meta
    ELSE IF pk \notin DOMAIN meta
    THEN [k \in (DOMAIN meta) \cup {pk} |-> IF k = pk THEN api_updated_at ELSE meta[k]]
    ELSE IF meta[pk] # api_updated_at \/ meta_created
    THEN [meta EXCEPT ![pk] = api_updated_at]
    ELSE meta


\* fill-empty-fields without the test that the stored value is empty
FillAllFields(media_item, defaults_for_update) ==
    Restrict(defaults_for_update,
             {f \in DOMAIN defaults_for_update :
                 /\ f \in DOMAIN media_item
                 /\ Truthy(defaults_for_update[f])})

\* fields_to_update of the fill-empty-fields branch
FillEmptyFields(media_item, defaults_for_update) ==
    Restrict(defaults_for_update,
             {f \in DOMAIN defaults_for_update :
                 /\ f \in DOMAIN media_item
                 /\ ~Truthy(media_item[f])
                 /\ Truthy(defaults_for_update[f])})


\* should_update_main_data with an equal timestamp taken for a newer one
ShouldUpdateMainDataOnEqual(meta_created, source_last_updated_at, api_updated_at) ==
    \/ meta_created
    \/ source_last_updated_at = NullTime
    \/ api_updated_at >= source_last_updated_at

\* should_update_main_data with the test of _update_metadata: any other
\* timestamp counts
ShouldUpdateMainDataOnDifferent(meta_created, source_last_updated_at, api_updated_at) ==
    \/ meta_created
    \/ source_last_updated_at = NullTime
    \/ api_updated_at # source_last_updated_at

\* should_update_main_data of the exact-match branch
ShouldUpdateMainData(meta_created, source_last_updated_at, api_updated_at) ==
    \/ meta_created
    \/ source_last_updated_at = NullTime
    \/ api_updated_at > source_last_updated_at

\* fields_to_update of the subset branch: all API data, and every id that differs
MergeIds(media_item, media_item_data, api_ids) ==
    Updated(media_item_data,
            Restrict(api_ids, {f \in DOMAIN api_ids : api_ids[f] # media_item[f]}))

\* the last lines of _update_item: the action that is returned
FinalAction(action, fields_to_update, m2m_changed, should_update_main_data) ==
    IF action = "skipped" /\ m2m_changed THEN "updated"
    ELSE IF DOMAIN fields_to_update = {} /\ ~m2m_changed /\ should_update_main_data
    THEN "skipped"
    ELSE action

\* the first half of _update_item on the store st = [items, metadata,
\* genre_table, country_table]: the metadata row is fetched or created, and
\* should_update_main_data and fields_to_update are decided
PlanUpdate(st, pk, media_item_data, api_ids, api_updated_at, is_subset_match, fill_empty_fields) ==
    LET media_item == st.items[pk]
        meta_created == pk \notin DOMAIN st.metadata
        metadata1 == IF meta_created
                     THEN [k \in (DOMAIN st.metadata) \cup {pk} |->
                              IF k = pk THEN NullTime ELSE st.metadata[k]]
                     ELSE st.metadata
        defaults_for_update == Restrict(media_item_data, (DOMAIN media_item_data) \ IdFields)
        should_update_main_data ==
            is_subset_match
            \/ ShouldUpdateMainData(meta_created, metadata1[pk], api_updated_at)
    IN [meta_created |-> meta_created,
        metadata |-> metadata1,
        should_update_main_data |-> should_update_main_data,
        fields_to_update |->
            IF is_subset_match THEN MergeIds(media_item, media_item_data, api_ids)
            ELSE IF should_update_main_data THEN defaults_for_update
            ELSE IF fill_empty_fields THEN FillEmptyFields(media_item, defaults_for_update)
            ELSE << >>]

\* the second half of _update_item: the save, the outcome m2m of the relation
\* update (run on the row as saved), the metadata timestamp and the action
ApplyUpdate(st, pk, api_updated_at, is_subset_match, plan, saved, m2m) ==
    LET update_fields_list == DOMAIN plan.fields_to_update
        action == IF update_fields_list # {} \/ m2m.m2m_changed THEN "updated" ELSE "skipped"
        skipped == [st |-> [st EXCEPT !.metadata = plan.metadata],
                    media_item |-> pk, status |-> "skipped",
                    match |-> IF is_subset_match THEN "subset" ELSE "exact",
                    needs_rollback |-> FALSE, written |-> {}, m2m_raised |-> FALSE,
                    should_update_main_data |-> plan.should_update_main_data,
                    update_fields |-> update_fields_list]
    IN IF update_fields_list = {} /\ ~plan.should_update_main_data
       THEN skipped
       ELSE IF update_fields_list # {}
               /\ IntegrityError(st.items, pk, saved, update_fields_list)
       THEN [skipped EXCEPT !.media_item = NoEntity,
                            !.status = "error_MediaItemProcessorError",
                            !.needs_rollback = TRUE]
       ELSE [skipped EXCEPT
                !.st = [items |-> [st.items EXCEPT ![pk] = m2m.media_item],
                        metadata |-> IF plan.should_update_main_data
                                     THEN UpdateMetadata(plan.metadata, pk, api_updated_at,
                                                         plan.meta_created, m2m.broken)
                                     ELSE plan.metadata,
                        genre_table |-> m2m.genre_table,
                        country_table |-> m2m.country_table],
                !.status = FinalAction(action, plan.fields_to_update, m2m.m2m_changed,
                                       plan.should_update_main_data),
                !.needs_rollback = m2m.broken,
                !.written = m2m.written,
                !.m2m_raised = m2m.raised]

\* a relation update that runs on the fill-empty-fields path as well
UpdateRelationsAlways(st, saved, genre_names, country_names, fault, should_update_main_data) ==
    UpdateM2MRelations(saved, st.genre_table, st.country_table,
                       genre_names, country_names, fault)

\* the relation update of _update_item, which runs on the should-update path only
UpdateRelations(st, saved, genre_names, country_names, fault, should_update_main_data) ==
    IF should_update_main_data
    THEN UpdateM2MRelations(saved, st.genre_table, st.country_table,
                            genre_names, country_names, fault)
    ELSE [media_item |-> saved, genre_table |-> st.genre_table,
          country_table |-> st.country_table, m2m_changed |-> FALSE,
          written |-> {}, raised |-> FALSE, broken |-> FALSE]

\* _update_item with its plan in hand
UpdatePlanned(st, pk, genre_names, country_names, api_updated_at, is_subset_match, fault, plan, saved) ==
    ApplyUpdate(st, pk, api_updated_at, is_subset_match, plan, saved,
                UpdateRelations(st, saved, genre_names, country_names, fault,
                                plan.should_update_main_data))

\* the row after the setattr loop of _update_item
SavedRow(st, pk, plan) == SetAttrs(st.items[pk], plan.fields_to_update)


\* the outer handler naming the exception type in the status, as the inner does
MetadataLookupFailedNamed(st, is_subset_match) ==
    [st |-> st, media_item |-> NoEntity, status |-> "error_OperationalError",
     match |-> IF is_subset_match THEN "subset" ELSE "exact",
     needs_rollback |-> FALSE, written |-> {}, m2m_raised |-> FALSE,
     should_update_main_data |-> FALSE, update_fields |-> {}]

\* _update_item when its first statement, the metadata get_or_create, raises:
\* nothing was written, the exception is no MediaItemProcessorError and
\* reaches the outer handler of process_api_item
MetadataLookupFailed(st, is_subset_match) ==
    [st |-> st, media_item |-> NoEntity, status |-> "error_outer_processor",
     match |-> IF is_subset_match THEN "subset" ELSE "exact",
     needs_rollback |-> FALSE, written |-> {}, m2m_raised |-> FALSE,
     should_update_main_data |-> FALSE, update_fields |-> {}]

\* _update_item: the plan is made once, then carried out; the result has the
\* shape process_api_item returns it in
UpdateItem(st, pk, media_item_data, api_ids, genre_names, country_names, api_updated_at, is_subset_match, fill_empty_fields, fault) ==
    IF fault = "metadata_get_or_create"
    THEN MetadataLookupFailed(st, is_subset_match)
    ELSE CHOOSE r \in
        {UpdatePlanned(st, pk, genre_names, country_names, api_updated_at,
                       is_subset_match, fault, plan, SavedRow(st, pk, plan)) :
            plan \in {PlanUpdate(st, pk, media_item_data, api_ids, api_updated_at,
                                 is_subset_match, fill_empty_fields)}} : TRUE

\* _create_item once the row is built and the relation update has returned m2m
FinishCreate(st, pk, media_item, api_updated_at, m2m) ==
    LET failed == [st |-> st, media_item |-> NoEntity,
                   status |-> "error_MediaItemProcessorError", match |-> "none",
                   needs_rollback |-> TRUE, written |-> {}, m2m_raised |-> FALSE,
                   should_update_main_data |-> FALSE, update_fields |-> {}]
    IN IF IntegrityError(st.items, pk, media_item, IdFields)
       THEN failed
       ELSE IF m2m.raised
       THEN [failed EXCEPT
                !.st = [items |-> Append(st.items, m2m.media_item),
                        metadata |-> st.metadata,
                        genre_table |-> m2m.genre_table,
                        country_table |-> m2m.country_table],
                !.needs_rollback = m2m.broken,
                !.written = m2m.written,
                !.m2m_raised = TRUE]
       ELSE [failed EXCEPT
                !.st = [items |-> Append(st.items, m2m.media_item),
                        metadata |-> UpdateMetadata(st.metadata, pk, api_updated_at,
                                                    TRUE, FALSE),
                        genre_table |-> m2m.genre_table,
                        country_table |-> m2m.country_table],
                !.media_item = pk,
                !.status = "created",
                !.needs_rollback = FALSE,
                !.written = m2m.written]

\* _create_item; the result has the shape process_api_item returns it in
CreateItem(st, media_item_data, genre_names, country_names, api_updated_at, fault) ==
    FinishCreate(st, Len(st.items) + 1, NewMediaItem(st.items, media_item_data),
                 api_updated_at,
                 UpdateM2MRelations(NewMediaItem(st.items, media_item_data),
                                    st.genre_table, st.country_table,
                                    genre_names, country_names, fault))

----------------------------------------------------------------------------
(* process_api_item *)


\* the title test looking only for the key
MissingTitleKey(media_item_data) == "title" \notin DOMAIN media_item_data

\* not media_item_data.get('title')
MissingTitle(media_item_data) == ~Truthy(Get(media_item_data, "title", None))

\* api_non_empty_ids, with an empty string taken for an id
ApiNonNullIds(api_ids) == Restrict(api_ids, {f \in DOMAIN api_ids : api_ids[f] # None})

\* api_non_empty_ids
ApiNonEmptyIds(api_ids) == Restrict(api_ids, {f \in DOMAIN api_ids : Truthy(api_ids[f])})

\* the body of process_api_item, run on the store st: the store it leaves
\* inside the transaction and what it returns
ProcessBody(st, mapped_data, api_updated_at, fill_empty_fields, fault) ==
    LET media_item_data == Get(mapped_data, "media_item_data", << >>)
        genre_names == Get(mapped_data, "genres", << >>)
        country_names == Get(mapped_data, "countries", << >>)
        api_ids == [f \in IdFields |-> Get(media_item_data, f, None)]
        api_non_empty_ids == ApiNonEmptyIds(api_ids)
        exact == FindExactMatch(st.items, api_ids)
        subset == FindSubsetMatch(st.items, api_non_empty_ids)
        early == [st |-> st, media_item |-> NoEntity, status |-> "", match |-> "none",
                  needs_rollback |-> FALSE, written |-> {}, m2m_raised |-> FALSE,
                  should_update_main_data |-> FALSE, update_fields |-> {}]
    IN IF DOMAIN mapped_data = {}
       THEN [early EXCEPT !.status = "skipped_mapping_failed"]
       ELSE IF MissingTitle(media_item_data)
       THEN [early EXCEPT !.status = "skipped_missing_title"]
       ELSE IF DOMAIN api_non_empty_ids = {}
       THEN [early EXCEPT !.status = "skipped_no_ids"]
       ELSE IF exact.raised
       THEN [early EXCEPT !.status = "error_MediaItemProcessorError", !.match = "multiple"]
       ELSE IF exact.media_item # NoEntity
       THEN UpdateItem(st, exact.media_item, media_item_data, api_ids, genre_names,
                       country_names, api_updated_at, FALSE, fill_empty_fields, fault)
       ELSE IF subset # NoEntity
       THEN UpdateItem(st, subset, media_item_data, api_ids, genre_names,
                       country_names, api_updated_at, TRUE, fill_empty_fields, fault)
       ELSE CreateItem(st, media_item_data, genre_names, country_names,
                       api_updated_at, fault)

\* @transaction.atomic around process_api_item: the method returns normally on
\* every path, so the transaction commits the store r.st the body left unless
\* a failed query marked it for rollback, which restores the store st
Atomic(st, r) == IF r.needs_rollback THEN [r EXCEPT !.st = st] ELSE r

\* process_api_item as its callers see it
ProcessApiItem(st, mapped_data, api_updated_at, fill_empty_fields, fault) ==
    Atomic(st, ProcessBody(st, mapped_data, api_updated_at, fill_empty_fields, fault))

----------------------------------------------------------------------------
(* The ingestion command parse_kodik: its own per-item step                 *)
(* (catalog/management/commands/parse_kodik.py).  _build_exact_match_query   *)
(* and _find_subset_match of the command build the queries and apply the     *)
(* priority rule of the processor's methods of the same names, and the       *)
(* decision of should_update_main_data and fields_to_update is the one of    *)
(* _update_item, so FindExactMatch, FindSubsetMatch and PlanUpdate stand for *)
(* both.                                                                     *)

\* target_genres / target_countries: the rows named exactly, united with what
\* get_or_create(name__iexact=...) returns for every name
TargetObjects(table, names, db_raises) ==
    CreateMissing(table, ValidNames(names), {},
                  {obj \in table : \E i \in DOMAIN ValidNames(names) : ValidNames(names)[i] = obj},
                  db_raises)

\* the relation block of _process_single_item, which runs when
\* should_update_main_data holds; one try/except around genres and countries
SingleRelations(st, saved, genre_names, country_names, fault, should_update_main_data) ==
    IF should_update_main_data
    THEN SetRelations(saved, st.country_table, fault,
                      TargetObjects(st.genre_table, genre_names, fault = "genres_get_or_create"),
                      TargetObjects(st.country_table, country_names, fault = "countries_get_or_create"))
    ELSE [media_item |-> saved, genre_table |-> st.genre_table,
          country_table |-> st.country_table, m2m_changed |-> FALSE,
          written |-> {}, raised |-> FALSE, broken |-> FALSE]

\* the metadata timestamp written at the end of the update branch; inside a
\* transaction marked for rollback the save raises, which is logged
StampMetadata(meta, pk, api_updated_at, broken) ==
    IF broken \/ meta[pk] = api_updated_at THEN meta
    ELSE [meta EXCEPT ![pk] = api_updated_at]

\* the action after the save and the relation block
SingleAction(action, update_fields_list, m2m_changed) ==
    IF update_fields_list # {} \/ m2m_changed THEN "updated"
    ELSE IF action \notin {"updated", "error"} THEN "skipped"
    ELSE action

\* the update branch of _process_single_item on the matched row pk, given the
\* plan (metadata row, should_update_main_data, fields_to_update), the row
\* after the setattr loop and the outcome m2m of the relation block
ApplySingle(st, pk, api_updated_at, action, plan, saved, m2m) ==
    LET update_fields_list == (DOMAIN plan.fields_to_update) \ {"updated_at"}
        stamped == IF plan.should_update_main_data
                   THEN StampMetadata(plan.metadata, pk, api_updated_at, m2m.broken)
                   ELSE plan.metadata
    IN IF ~(DOMAIN plan.fields_to_update # {}
            \/ (plan.should_update_main_data /\ action = "exact_match_found"))
       THEN [st |-> [st EXCEPT !.metadata =
                        IF plan.should_update_main_data
                        THEN StampMetadata(plan.metadata, pk, api_updated_at, FALSE)
                        ELSE plan.metadata],
             media_item |-> pk, status |-> "skipped", needs_rollback |-> FALSE]
       ELSE IF update_fields_list # {}
               /\ IntegrityError(st.items, pk, saved, update_fields_list)
       THEN [st |-> st, media_item |-> pk, status |-> "error", needs_rollback |-> TRUE]
       ELSE [st |-> [items |-> [st.items EXCEPT ![pk] = m2m.media_item],
                     metadata |-> stamped,
                     genre_table |-> m2m.genre_table,
                     country_table |-> m2m.country_table],
             media_item |-> pk,
             status |-> SingleAction(action, update_fields_list, m2m.m2m_changed),
             needs_rollback |-> m2m.broken]

\* the update branch with its plan in hand
SinglePlanned(st, pk, genre_names, country_names, api_updated_at, action, fault, plan, saved) ==
    ApplySingle(st, pk, api_updated_at, action, plan, saved,
                SingleRelations(st, saved, genre_names, country_names, fault,
                                plan.should_update_main_data))

\* the update branch of _process_single_item; the metadata get_or_create is
\* its first statement, and its failure reaches the outer handler
UpdateSingle(st, pk, media_item_data, api_ids, genre_names, country_names, api_updated_at, action, fill_empty_fields, fault) ==
    IF fault = "metadata_get_or_create"
    THEN [st |-> st, media_item |-> NoEntity, status |-> "error", needs_rollback |-> FALSE]
    ELSE CHOOSE r \in
        {SinglePlanned(st, pk, genre_names, country_names, api_updated_at, action,
                       fault, plan, SavedRow(st, pk, plan)) :
            plan \in {PlanUpdate(st, pk, media_item_data, api_ids, api_updated_at,
                                 action = "subset_match_found", fill_empty_fields)}} : TRUE

\* the branch of _process_single_item for action 'no_match_found': creation
\* is deferred, nothing is written
NoMatchFound(st) ==
    [st |-> st, media_item |-> NoEntity, status |-> "skipped_no_match",
     needs_rollback |-> FALSE]

\* the body of _process_single_item on a raw item whose mapping is
\* mapped_data and whose parsed updated_at is api_updated_at (NullTime when
\* the field is missing or does not parse)
SingleBody(st, mapped_data, api_updated_at, fill_empty_fields, fault) ==
    LET media_item_data == Get(mapped_data, "media_item_data", << >>)
        genre_names == Get(mapped_data, "genres", << >>)
        country_names == Get(mapped_data, "countries", << >>)
        api_ids == [f \in IdFields |-> Get(media_item_data, f, None)]
        api_non_empty_ids == ApiNonEmptyIds(api_ids)
        exact == FindExactMatch(st.items, api_ids)
        subset == FindSubsetMatch(st.items, api_non_empty_ids)
        early == [st |-> st, media_item |-> NoEntity, status |-> "skipped",
                  needs_rollback |-> FALSE]
    IN IF api_updated_at = NullTime THEN early
       ELSE IF DOMAIN mapped_data = {} THEN early
       ELSE IF MissingTitle(media_item_data) THEN early
       ELSE IF DOMAIN api_non_empty_ids = {} THEN early
       ELSE IF exact.raised THEN [early EXCEPT !.status = "error"]
       ELSE IF exact.media_item # NoEntity
       THEN UpdateSingle(st, exact.media_item, media_item_data, api_ids, genre_names,
                         country_names, api_updated_at, "exact_match_found",
                         fill_empty_fields, fault)
       ELSE IF subset # NoEntity
       THEN UpdateSingle(st, subset, media_item_data, api_ids, genre_names,
                         country_names, api_updated_at, "subset_match_found",
                         fill_empty_fields, fault)
       ELSE NoMatchFound(st)

\* _process_single_item under its @transaction.atomic
ProcessSingleItem(st, mapped_data, api_updated_at, fill_empty_fields, fault) ==
    Atomic(st, SingleBody(st, mapped_data, api_updated_at, fill_empty_fields, fault))

----------------------------------------------------------------------------
(* The mapper: map_kodik_item_to_models (catalog/services/kodik_mapper.py). *)
(* A raw item is what the JSON of a page holds at one place of 'results':    *)
(* kind tells whether it is an object ("dict"), null ("none") or a list      *)
(* ("list"); fields is the object as a dict.  release_year, media_type and   *)
(* poster_url go the way of description and are left out, as the columns     *)
(* are in the rows.                                                          *)

\* what the mapper returns for an item it gives up on: Python None
Null == << >>

\* Python `a or b` on Optional[str]
Or(a, b) == IF Truthy(a) THEN a ELSE b

\* _get_safe_string(data, key), data a dict
GetSafeString(data, key) == Get(data, key, None)

\* sorted(list(names)) for a set of names, of the names the model knows
Sorted(names) == SelectSeq(<<Empty, "Action", "Drama">>, LAMBDA n : n \in names)

\* _get_string_list(data, key): the items of the list that are truthy, stripped
GetStringList(data, key) ==
    LET value == Get(data, key, << >>)
    IN {Strip(value[i]) : i \in {j \in DOMAIN value : Truthy(value[j])}}

\* '' turned into None
EmptyToNone(v) == IF v = Empty THEN None ELSE v

\* a mapper that takes the original title whenever there is one
MediaItemMapOriginalFirst(d) ==
    LET original_title == Get(d, "title_orig", None)
        material_data == Get(d, "material_data", << >>)
        direct == [title |-> Or(original_title, Get(d, "title", None)),
                   original_title |-> EmptyToNone(original_title),
                   kinopoisk_id |-> EmptyToNone(Get(d, "kinopoisk_id", None)),
                   imdb_id |-> EmptyToNone(Get(d, "imdb_id", None)),
                   shikimori_id |-> EmptyToNone(Get(d, "shikimori_id", None)),
                   mydramalist_id |-> EmptyToNone(Get(d, "mdl_id", None)),
                   description |-> None]
    IN IF DOMAIN material_data = {} THEN direct
       ELSE [direct EXCEPT
                !.description = GetSafeString(material_data, "description"),
                !.kinopoisk_id = Or(GetSafeString(material_data, "kinopoisk_id"), @),
                !.imdb_id = Or(GetSafeString(material_data, "imdb_id"), @),
                !.shikimori_id = Or(GetSafeString(material_data, "shikimori_id"), @),
                !.mydramalist_id = Or(GetSafeString(material_data, "mydramalist_id"), @)]

\* media_item_map as it stands before the None values are removed: the title
\* falls back on the original title, '' becomes None in the optional fields,
\* material_data overrides the ids it holds
MediaItemMap(d) ==
    LET title == Get(d, "title", None)
        original_title == Get(d, "title_orig", None)
        material_data == Get(d, "material_data", << >>)
        direct == [title |-> IF ~Truthy(title) /\ Truthy(original_title)
                             THEN original_title ELSE title,
                   original_title |-> EmptyToNone(original_title),
                   kinopoisk_id |-> EmptyToNone(Get(d, "kinopoisk_id", None)),
                   imdb_id |-> EmptyToNone(Get(d, "imdb_id", None)),
                   shikimori_id |-> EmptyToNone(Get(d, "shikimori_id", None)),
                   mydramalist_id |-> EmptyToNone(Get(d, "mdl_id", None)),
                   description |-> None]
    IN IF DOMAIN material_data = {} THEN direct
       ELSE [direct EXCEPT
                !.description = GetSafeString(material_data, "description"),
                !.kinopoisk_id = Or(GetSafeString(material_data, "kinopoisk_id"), @),
                !.imdb_id = Or(GetSafeString(material_data, "imdb_id"), @),
                !.shikimori_id = Or(GetSafeString(material_data, "shikimori_id"), @),
                !.mydramalist_id = Or(GetSafeString(material_data, "mydramalist_id"), @)]

\* mapped_data built from media_item_map and material_data
MappedFrom(media_item_map, material_data) ==
    [media_item_data |-> Restrict(media_item_map,
                                  {k \in DOMAIN media_item_map : media_item_map[k] # None}),
     genres |-> Sorted(GetStringList(material_data, "genres")),
     countries |-> Sorted(GetStringList(material_data, "countries"))]

\* map_kodik_item_to_models
MapKodikItemToModels(item_data) ==
    IF item_data.kind # "dict" \/ DOMAIN item_data.fields = {}
       \/ "id" \notin DOMAIN item_data.fields
    THEN Null
    ELSE IF ~Truthy(MediaItemMap(item_data.fields).title)
    THEN Null
    ELSE MappedFrom(MediaItemMap(item_data.fields),
                    Get(item_data.fields, "material_data", << >>))

\* isoparse of the updated_at string of a raw item that is a dict; NullTime
\* when the key is missing or the string does not parse
IsoParse(item_data) ==
    LET s == Get(item_data.fields, "updated_at", None)
    IN CASE s = "2024-01-01T00:00:00Z" -> 1
         [] s = "2024-01-02T00:00:00Z" -> MaxTime
         [] OTHER -> NullTime

----------------------------------------------------------------------------
(* The synchronizer: _process_media_item of update_translations            *)
(* (catalog/management/commands/update_translations.py) on the tables of     *)
(* catalog/models.py.  A Season is the pair <<media_item, season_number>>,   *)
(* an Episode the triple <<media_item, season_number, episode_number>> with  *)
(* its title, a Screenshot a url with its episode, a MediaSourceLink a row   *)
(* with its primary key.  quality_info goes the way of player_link and is    *)
(* left out.                                                                 *)

\* the episode column of a link that has none
NoEpisode == << >>

\* what int() makes of a key that is no number
NotInt == -99

\* int(season_num_str), int(episode_num_str)
ToInt(num_str) ==
    CASE num_str = "-2" -> -2
      [] num_str = "-1" -> -1
      [] num_str = "0" -> 0
      [] num_str = "1" -> 1
      [] num_str = "01" -> 1
      [] num_str = "2" -> 2
      [] OTHER -> NotInt

\* s.startswith('http')
StartsWithHttp(url) == url \in {"http://s1", "http://s2"}

\* the tables the synchronizer writes, empty
NoTables == [seasons |-> {}, episodes |-> {}, screenshots |-> {}, links |-> {}]

\* the primary key the database gives the next link
NextPk(links) == IF links = {} THEN 1 ELSE 1 + CHOOSE n \in {l.pk : l \in links} : \A l \in links : l.pk <= n

\* the local state of one _process_media_item call: the tables, the keys of
\* the links it touched, and whether an exception is on its way out
Work(tables) == [tables |-> tables, processed_link_pks |-> {}, raised |-> FALSE]

\* the rows update_or_create of a link looks up
LinkMatches(links, media_item, episode, translation) ==
    {l \in links : /\ l.source = "kodik"
                   /\ l.media_item = media_item
                   /\ l.episode = episode
                   /\ l.translation = translation}

\* update_or_create that stamps the time of the write instead of
\* check_start_time
UpdateOrCreateLinkStampedLate(w, media_item, episode, translation, player_link, check_start_time) ==
    LET found == LinkMatches(w.tables.links, media_item, episode, translation)
        pk == IF found = {} THEN NextPk(w.tables.links) ELSE (CHOOSE l \in found : TRUE).pk
        row == [pk |-> pk, source |-> "kodik", media_item |-> media_item, episode |-> episode,
                translation |-> translation, player_link |-> player_link,
                last_seen_at |-> check_start_time + 1]
    IN IF Cardinality(found) > 1 THEN w
       ELSE [w EXCEPT !.tables.links = (@ \ found) \cup {row},
                      !.processed_link_pks = @ \cup {pk}]

\* a write of the link that makes a new row every time
CreateLink(w, media_item, episode, translation, player_link, check_start_time) ==
    LET pk == NextPk(w.tables.links)
        row == [pk |-> pk, source |-> "kodik", media_item |-> media_item, episode |-> episode,
                translation |-> translation, player_link |-> player_link,
                last_seen_at |-> check_start_time]
    IN [w EXCEPT !.tables.links = @ \cup {row}, !.processed_link_pks = @ \cup {pk}]

\* MediaSourceLink.objects.update_or_create(defaults, **lookup) in its
\* try/except: one row found is updated, none found makes a new row, several
\* found raise MultipleObjectsReturned, which is logged and dropped
UpdateOrCreateLink(w, media_item, episode, translation, player_link, check_start_time) ==
    LET found == LinkMatches(w.tables.links, media_item, episode, translation)
        pk == IF found = {} THEN NextPk(w.tables.links) ELSE (CHOOSE l \in found : TRUE).pk
        row == [pk |-> pk, source |-> "kodik", media_item |-> media_item, episode |-> episode,
                translation |-> translation, player_link |-> player_link,
                last_seen_at |-> check_start_time]
    IN IF Cardinality(found) > 1 THEN w
       ELSE [w EXCEPT !.tables.links = (@ \ found) \cup {row},
                      !.processed_link_pks = @ \cup {pk}]

\* get_or_create that takes over the row of a url another episode holds
GetOrCreateScreenshotMoving(screenshots, episode, url) ==
    {shot \in screenshots : shot.url # url} \cup {[episode |-> episode, url |-> url]}

\* Screenshot.objects.get_or_create(episode=episode, url=url) in its
\* try/except: the row is made unless the url is stored already; stored for
\* another episode, the insert breaks the unique url and the IntegrityError
\* is logged and dropped
GetOrCreateScreenshot(screenshots, episode, url) ==
    IF \E shot \in screenshots : shot.url = url
    THEN screenshots
    ELSE screenshots \cup {[episode |-> episode, url |-> url]}

\* the loop over episode_screenshots
RECURSIVE SaveScreenshots(_, _, _)
SaveScreenshots(screenshots, episode, urls) ==
    IF urls = << >> THEN screenshots
    ELSE SaveScreenshots(GetOrCreateScreenshot(screenshots, episode, Head(urls)),
                         episode, Tail(urls))

\* one pass of the loop over the episodes of a season: a key that is no
\* number or a number of 0 or less is passed over; content that is a string is
\* the link; a dict gives link, title and the screenshots that are
\* http strings; anything else gives nothing, and the episode is written all
\* the same, by update_or_create on (season, episode_number) with the title
SaveEpisode(w, media_item, season_number, translation, content, check_start_time) ==
    IF ToInt(content.episode_num_str) = NotInt \/ ToInt(content.episode_num_str) <= 0 THEN w
    ELSE \* the episode row and its screenshots, then the link if there is one
         LET episode == <<media_item, season_number, ToInt(content.episode_num_str)>>
             episode_title == IF content.kind = "dict" THEN content.title ELSE None
             episode_link == IF content.kind \in {"str", "dict"} THEN content.link ELSE None
             episode_screenshots == IF content.kind = "dict"
                                    THEN SelectSeq(content.screenshots, StartsWithHttp)
                                    ELSE << >>
             saved == [w EXCEPT !.tables.episodes = {e \in @ : e.key # episode}
                                                      \cup {[key |-> episode, title |-> episode_title]},
                                !.tables.screenshots = SaveScreenshots(@, episode, episode_screenshots)]
         IN IF Truthy(episode_link)
            THEN UpdateOrCreateLink(saved, NoEntity, episode, translation, episode_link, check_start_time)
            ELSE saved

RECURSIVE SaveEpisodes(_, _, _, _, _, _)
SaveEpisodes(w, media_item, season_number, translation, episodes_list_data, check_start_time) ==
    IF episodes_list_data = << >> THEN w
    ELSE SaveEpisodes(SaveEpisode(w, media_item, season_number, translation,
                                  Head(episodes_list_data), check_start_time),
                      media_item, season_number, translation, Tail(episodes_list_data),
                      check_start_time)

\* a season loop that takes every number
SeasonNumberAny(season_number) == season_number # NotInt

\* the season numbers the loop goes on with
SeasonNumberValid(season_number) == season_number # NotInt /\ season_number >= -1

\* one pass of the loop over the seasons of a variant.  season_content.get
\* ('link') is called whatever season_content is: on content that is no dict
\* the AttributeError leaves the loops and the function
SaveSeason(w, media_item, translation, content, check_start_time) ==
    IF ~SeasonNumberValid(ToInt(content.season_num_str)) THEN w
    ELSE IF content.kind # "dict" THEN [w EXCEPT !.raised = TRUE]
    ELSE SaveEpisodes([w EXCEPT !.tables.seasons = @ \cup {<<media_item, ToInt(content.season_num_str)>>}],
                      media_item, ToInt(content.season_num_str), translation,
                      content.episodes, check_start_time)

RECURSIVE SaveSeasons(_, _, _, _, _)
SaveSeasons(w, media_item, translation, api_seasons_data, check_start_time) ==
    IF api_seasons_data = << >> \/ w.raised THEN w
    ELSE SaveSeasons(SaveSeason(w, media_item, translation, Head(api_seasons_data), check_start_time),
                     media_item, translation, Tail(api_seasons_data), check_start_time)

\* a lookup that takes every translation id the API names
AnyTranslation(translation_map, kodik_translation_id) == kodik_translation_id # NoEntity

\* translation_map.get(kodik_translation_id) finds a row; NoEntity is a
\* variant without 'translation' or without its 'id'
TranslationFound(translation_map, kodik_translation_id) ==
    kodik_translation_id # NoEntity /\ kodik_translation_id \in translation_map

\* one pass of the loop over search_results
SaveVariant(w, media_item, translation_map, variant, check_start_time) ==
    IF ~TranslationFound(translation_map, variant.translation) THEN w
    ELSE SaveSeasons(IF Truthy(variant.link)
                     THEN UpdateOrCreateLink(w, media_item, NoEpisode, variant.translation,
                                             variant.link, check_start_time)
                     ELSE w,
                     media_item, variant.translation, variant.seasons, check_start_time)

RECURSIVE SaveVariants(_, _, _, _, _)
SaveVariants(w, media_item, translation_map, search_results, check_start_time) ==
    IF search_results = << >> \/ w.raised THEN w
    ELSE SaveVariants(SaveVariant(w, media_item, translation_map, Head(search_results), check_start_time),
                      media_item, translation_map, Tail(search_results), check_start_time)

\* the links of the item whatever their source
InScopeAnySource(l, media_item) ==
    \/ l.episode # NoEpisode /\ l.episode[1] = media_item
    \/ l.episode = NoEpisode /\ l.media_item = media_item

\* the links the cleanup looks at: those of the episodes of the item, and
\* those of the item that have no episode, of the Kodik source
InScope(l, media_item) ==
    /\ l.source = "kodik"
    /\ \/ l.episode # NoEpisode /\ l.episode[1] = media_item
       \/ l.episode = NoEpisode /\ l.media_item = media_item

\* a cleanup that leaves the links of the episodes alone
CleanupMainOnly(w, media_item) ==
    [w EXCEPT !.tables.links = {l \in @ : ~(/\ InScope(l, media_item)
                                           /\ l.episode = NoEpisode
                                           /\ l.pk \notin w.processed_link_pks)}]

\* stale_links_qs.delete()
Cleanup(w, media_item) ==
    [w EXCEPT !.tables.links = {l \in @ : ~(/\ InScope(l, media_item)
                                           /\ l.pk \notin w.processed_link_pks)}]

\* what a _process_media_item call leaves: the tables, what it returned or
\* that it raised, and the keys of the links it touched
Outcome(tables, outcome, w) ==
    [tables |-> tables, outcome |-> outcome, processed_link_pks |-> w.processed_link_pks]

\* the end of _process_media_item once the variants are through: an
\* exception on its way out rolls the transaction back; otherwise the
\* cleanup runs if asked for and 1 is returned
Finished(tables, media_item, cleanup, w) ==
    IF w.raised THEN Outcome(tables, "raised", Work(tables))
    ELSE IF cleanup THEN Outcome(Cleanup(w, media_item).tables, "processed", w)
    ELSE Outcome(w.tables, "processed", w)

\* a synchronizer that cleans up after an empty result list as well
ProcessMediaItemCleaning(tables, media_item, has_ids, translation_map, response, cleanup, check_start_time) ==
    IF ~has_ids THEN Outcome(tables, "no_ids", Work(tables))
    ELSE IF response.kind # "results" THEN Outcome(tables, "no_response", Work(tables))
    ELSE Finished(tables, media_item, cleanup,
                  SaveVariants(Work(tables), media_item, translation_map,
                               response.results, check_start_time))

\* _process_media_item under its @transaction.atomic.  has_ids is
\* any(external_ids.values()); response is what search_by_ids returned:
\* kind "none" for None, "no_results" for a dict without 'results',
\* "results" for one with the list results
ProcessMediaItem(tables, media_item, has_ids, translation_map, response, cleanup, check_start_time) ==
    IF ~has_ids THEN Outcome(tables, "no_ids", Work(tables))
    ELSE IF response.kind # "results" THEN Outcome(tables, "no_response", Work(tables))
    ELSE IF response.results = << >> THEN Outcome(tables, "no_variants", Work(tables))
    ELSE Finished(tables, media_item, cleanup,
                  SaveVariants(Work(tables), media_item, translation_map,
                               response.results, check_start_time))

----------------------------------------------------------------------------
(* The state machine: a caller holding processors on one database builds the  *)
(* arguments of a call, process_api_item runs, the caller takes the returned  *)
(* pair and turns to its next call.  title and description stand for the      *)
(* non-id columns, which the code handles alike.                              *)

Store == [items |-> items, metadata |-> metadata,
          genre_table |-> genre_table, country_table |-> country_table]

\* no record of what process_api_item returned is kept
NoHistory == [on |-> FALSE, accepted |-> {}]

NoCall == [mapped_data |-> << >>, api_updated_at |-> NullTime,
           fill_empty_fields |-> FALSE, fault |-> "none"]

NoResult == [media_item |-> NoEntity, status |-> "", match |-> "none",
             needs_rollback |-> FALSE, written |-> {}, m2m_raised |-> FALSE,
             should_update_main_data |-> FALSE, update_fields |-> {}]

\* --limit-pages not given: page_limit is None
NoLimit == -1

\* the command has not returned to the shell
NotExited == -1

\* no raw item in hand
NoRawItem == [kind |-> "none", fields |-> << >>]

\* the locals of Command.handle before the command is started.  phase tells
\* where handle stands: "off", "loop" (top of the while loop), "page" (inside
\* the for loop over the results), "summary" (after the loop), "finished".
\* target_page 0 stands for a falsy --target-page; pending counts the results
\* of the page in hand not yet iterated.  page_link, requests, delivered,
\* handled, failed, start_page_link and summary record what the run did: the
\* link of the last request, the number of requests made, the number of
\* results on the pages that were to be processed, the number of items given
\* to _process_single_item, whether a request failed, the option as given,
\* the totals written at the end; results is len(results) of the page in
\* hand and skipped the number of results on the pages that were fetched but
\* not to be processed.  phase "aborted" is a command ended by a
\* CommandError or an exception that left handle; exit_status is the status
\* the process ends with.  item_data is the raw item of the last pass of the
\* for loop and mapped_data what the mapper made of it, in the runs that
\* follow raw items.
NoRun ==
    [phase |-> "off", page_limit |-> NoLimit, target_page |-> 0,
     start_page_link |-> None, fill_empty_fields |-> FALSE,
     page_count |-> 0, next_page_link |-> None, pending |-> 0,
     next_page_link_from_response |-> None,
     total_created_count |-> 0, total_updated_count |-> 0,
     total_skipped_count |-> 0, total_error_count |-> 0,
     action_taken |-> "",
     page_link |-> None, requests |-> 0, delivered |-> 0, handled |-> 0,
     results |-> 0, skipped |-> 0,
     failed |-> FALSE,
     summary |-> << >>, exit_status |-> NotExited,
     item_data |-> NoRawItem, mapped_data |-> Null]

\* --skip-recently-updated-meta not given: skip_hours is None
NoSkip == -1

\* what search_by_ids returned when no call was made yet
NoResponse == [kind |-> "none", results |-> << >>]

\* the synchronizer at rest on empty tables.  tables are the Season, Episode,
\* Screenshot and MediaSourceLink tables, translation_map the kodik_id column
\* of the Translation table; phase, cleanup, skip_hours, selected, queue,
\* total_items and processed_count are the locals of handle (selected is
\* media_items_qs before order_by and the slice, queue the items still to
\* iterate over); now is the clock, started_at its value when handle
\* started; last is the last _process_media_item call and synchronized_at
\* the clock at the last call that returned 1, item by item.
NoSync ==
    [phase |-> "off", tables |-> NoTables, translation_map |-> {},
     cleanup |-> FALSE, skip_hours |-> NoSkip, selected |-> {}, queue |-> << >>,
     total_items |-> 0, processed_count |-> 0, now |-> NullTime, started_at |-> NullTime,
     last |-> [media_item |-> NoEntity, response |-> NoResponse, outcome |-> "",
               processed_link_pks |-> {}, check_start_time |-> NullTime,
               cleanup |-> FALSE, repeated |-> FALSE],
     synchronized_at |-> [pk \in 1..MaxItems |-> NullTime]]

\* the caller picks a processor (with or without fill_empty_fields) and the
\* arguments of the coming call
Fetch(mapped_data, api_updated_at, fill_empty_fields, fault) ==
    /\ pc = "idle"
    /\ pc' = "pending"
    /\ call' = [mapped_data |-> mapped_data, api_updated_at |-> api_updated_at,
                fill_empty_fields |-> fill_empty_fields, fault |-> fault]
    /\ UNCHANGED <<items, metadata, genre_table, country_table, result, run>>
    /\ UNCHANGED <<sync, history>>

\* process_api_item runs, as one transaction
Process ==
    /\ pc = "pending"
    /\ \E r \in {ProcessApiItem(Store, call.mapped_data, call.api_updated_at,
                               call.fill_empty_fields, call.fault)} :
          /\ Len(r.st.items) <= MaxItems
          /\ items' = r.st.items
          /\ metadata' = r.st.metadata
          /\ genre_table' = r.st.genre_table
          /\ country_table' = r.st.country_table
          /\ result' = [f \in DOMAIN NoResult |-> r[f]]
          /\ history' = IF history.on /\ r.status \in {"created", "updated"}
                        THEN [history EXCEPT !.accepted = @ \cup {<<call.mapped_data, r.media_item>>}]
                        ELSE history
    /\ pc' = "done"
    /\ UNCHANGED <<call, run>>
    /\ UNCHANGED sync

\* the caller has used the returned pair and turns to its next call
Continue ==
    /\ pc = "done"
    /\ pc' = "idle"
    /\ call' = NoCall
    /\ result' = NoResult
    /\ UNCHANGED <<items, metadata, genre_table, country_table, run>>
    /\ UNCHANGED <<sync, history>>

\* marks, in the arguments of MediaItemData, a key the dict does not hold
Absent == "<absent>"

\* media_item_data dicts: title, description and the four ids, each a value,
\* None, or absent
MediaItemData(titles, descriptions, kps, imdbs, shikis, mdls) ==
    {LET d == [title |-> t, description |-> de, kinopoisk_id |-> kp, imdb_id |-> im,
               shikimori_id |-> sh, mydramalist_id |-> md]
     IN Restrict(d, {k \in DOMAIN d : d[k] # Absent}) :
     t \in titles, de \in descriptions, kp \in kps, im \in imdbs, sh \in shikis, md \in mdls}

\* mapped_data dicts
MappedData(datas, genre_lists, country_lists) ==
    {[media_item_data |-> d, genres |-> g, countries |-> c] :
        d \in datas, g \in genre_lists, c \in country_lists}

\* the records of the identity runs: every combination of ids
Records ==
    MappedData(MediaItemData({"X"}, {Absent}, {Absent, "1", "2"}, {Absent, "tt9"},
                             {Absent, "s1"}, {Absent, "m1"}),
               {<< >>}, {<< >>})

Init ==
    /\ items = << >>
    /\ metadata = << >>
    /\ genre_table = {}
    /\ country_table = {}
    /\ pc = "idle"
    /\ call = NoCall
    /\ result = NoResult
    /\ run = NoRun
    /\ history = NoHistory
    /\ sync = NoSync

Next ==
    \/ \E mapped_data \in Records, api_updated_at \in Times :
          Fetch(mapped_data, api_updated_at, FALSE, "none")
    \/ Process
    \/ Continue

\* identity runs: records as the mapper shapes them, every combination of ids,
\* handed to a processor built with the default fill_empty_fields=False
Spec == Init /\ [][Next]_vars

\* the records of the field runs: two titles, a description or none, a genre or none
FieldRecords ==
    MappedData(MediaItemData({"X", "Y"}, {Absent, "d1"}, {"1", "2"}, {Absent, "tt9"},
                             {Absent}, {Absent}),
               {<< >>, <<"Action">>}, {<< >>})

NextFields ==
    \/ \E mapped_data \in FieldRecords, api_updated_at \in Times,
          fill_empty_fields \in BOOLEAN :
          Fetch(mapped_data, api_updated_at, fill_empty_fields, "none")
    \/ Process
    \/ Continue

\* field runs: few ids, changing titles, descriptions and genres
SpecFields == Init /\ [][NextFields]_vars

\* lists of at most two of the given names
Lists(names) == {<< >>} \cup {<<n>> : n \in names} \cup {<<n, m>> : n, m \in names}

\* the records of the relation runs: one title and id, genre and country lists
\* with case variants, padding and blanks
RelationRecords ==
    MappedData(MediaItemData({"X"}, {Absent}, {"1"}, {Absent}, {Absent}, {Absent}),
               Lists({"Action", "action", " Action ", "Drama", " "}),
               {<< >>, <<"USA">>, <<"Japan", "USA">>})

NextRelations ==
    \/ \E mapped_data \in RelationRecords, api_updated_at \in Times,
          fill_empty_fields \in BOOLEAN :
          Fetch(mapped_data, api_updated_at, fill_empty_fields, "none")
    \/ Process
    \/ Continue

\* relation runs: one entity, its genres and countries converging
SpecRelations == Init /\ [][NextRelations]_vars

\* the records of the fault runs
FaultRecords ==
    MappedData(MediaItemData({"X", "Y"}, {Absent}, {"1"}, {Absent, "tt9"},
                             {Absent}, {Absent}),
               {<< >>, <<"Action">>}, {<< >>, <<"USA">>})

NextFault ==
    \/ \E mapped_data \in FaultRecords, api_updated_at \in Times,
          fill_empty_fields \in BOOLEAN, fault \in Faults :
          Fetch(mapped_data, api_updated_at, fill_empty_fields, fault)
    \/ Process
    \/ Continue

\* fault runs: the database may fail in the genre/country sub-step
SpecFault == Init /\ [][NextFault]_vars

\* the records of the raw runs: ids and titles may be None or the empty string
RawRecords ==
    MappedData(MediaItemData({"X", Empty, Absent}, {Absent}, {None, Empty, "1"},
                             {Absent, Empty, "tt9"}, {Absent, Empty}, {None}),
               {<< >>}, {<< >>})

NextRaw ==
    \/ \E mapped_data \in RawRecords, api_updated_at \in Times,
          fill_empty_fields \in BOOLEAN :
          Fetch(mapped_data, api_updated_at, fill_empty_fields, "none")
    \/ Process
    \/ Continue

\* raw runs: process_api_item called with dicts the mapper would not produce
SpecRaw == Init /\ [][NextRaw]_vars

NextEmptyIds ==
    \/ \E mapped_data \in MappedData(MediaItemData({"X"}, {Absent}, {Absent, "1"}, {Absent, "tt9"},
                                                   {Absent, Empty, "s1"}, {Absent}),
                                     {<< >>}, {<< >>}),
          api_updated_at \in Times :
          Fetch(mapped_data, api_updated_at, FALSE, "none")
    \/ Process
    \/ Continue

\* identity runs with ids that may be the empty string: three id fields, of
\* which the caller may hand over one as ''
SpecEmptyIds == Init /\ [][NextEmptyIds]_vars

\* a table whose unique constraints were violated from outside: two rows
\* with the same four ids
DuplicateRows ==
    {<<NewMediaItem(<< >>, d), NewMediaItem(<<1>>, d)>> :
        d \in MediaItemData({"X"}, {Absent}, {Absent, "1", "2"}, {Absent, "tt9"},
                            {Absent, "s1"}, {Absent, "m1"}) \ {[title |-> "X"]}}

InitDuplicates ==
    /\ items \in DuplicateRows
    /\ metadata \in [{1, 2} -> Times]
    /\ genre_table = {}
    /\ country_table = {}
    /\ pc = "idle"
    /\ call = NoCall
    /\ result = NoResult
    /\ run = NoRun
    /\ history = NoHistory
    /\ sync = NoSync

\* identity runs on a table that starts with duplicated rows
SpecDuplicates == InitDuplicates /\ [][Next]_vars

\* the records of the widening runs: two id fields, two titles, a genre or none
WideningRecords ==
    MappedData(MediaItemData({"X", "Y"}, {Absent}, {Absent, "1"}, {Absent, "tt9"},
                             {Absent}, {Absent}),
               {<< >>, <<"Action">>}, {<< >>})

NextWidening ==
    \/ \E mapped_data \in WideningRecords, api_updated_at \in Times :
          Fetch(mapped_data, api_updated_at, FALSE, "none")
    \/ Process
    \/ Continue

\* widening runs: entities that gain ids, titles and genres from later records
SpecWidening == Init /\ [][NextWidening]_vars

\* the records of the status runs: those of the fault runs, records without a
\* title or without a usable id, and mapped data that is empty (the mapper
\* returned None)
StatusRecords ==
    FaultRecords
    \cup MappedData(MediaItemData({"X", Empty, Absent}, {Absent}, {Absent, Empty, "1"},
                                  {Absent}, {Absent}, {Absent}),
                    {<< >>, <<"Action">>}, {<< >>})
    \cup {<< >>}

NextStatus ==
    \/ \E mapped_data \in StatusRecords, api_updated_at \in Times,
          fill_empty_fields \in BOOLEAN, fault \in Faults :
          Fetch(mapped_data, api_updated_at, fill_empty_fields, fault)
    \/ Process
    \/ Continue

\* status runs: every way process_api_item can end
SpecStatus == Init /\ [][NextStatus]_vars

----------------------------------------------------------------------------
(* The ingestion run: Command.handle of parse_kodik.  The command runs on   *)
(* a database that earlier calls of the pipeline have filled.  The remote   *)
(* API is the environment: every request fails or answers with some page.   *)

MaxPages == 2       \* pages a run without --limit-pages is followed for
MaxPageLen == 2     \* results a page may carry

\* next_page cursors the API returns
Links == {"link_a", "link_b"}

\* what client.list_items does: it raises, it returns None (every httpx
\* error is logged and swallowed), or it returns the JSON of a page, of which
\* the run reads the results and next_page
Responses ==
    {[kind |-> k, results |-> 0, next_page |-> None] : k \in {"raise", "none"}}
    \cup {[kind |-> "data", results |-> n, next_page |-> l] :
            n \in 0..MaxPageLen, l \in Links \cup {None}}

\* the records the API delivers during a run
IngestRecords ==
    MappedData(MediaItemData({"X", "Y"}, {Absent}, {Absent, "1"}, {Absent, "tt9"},
                             {Absent}, {Absent}),
               {<<"Action">>}, {<< >>})
    \cup {<< >>}

\* raw items: the mapping of the item and its updated_at, NullTime when the
\* field is missing or does not parse
RawItems == {[mapped_data |-> m, updated_at |-> t] : m \in IngestRecords, t \in Times \cup {NullTime}}

\* the database faults an item of a run may meet
IngestFaults == {"none", "metadata_get_or_create", "genres_set"}

EmptyStore == [items |-> << >>, metadata |-> << >>, genre_table |-> {}, country_table |-> {}]

\* the records earlier calls have stored
SeedRecords ==
    MappedData(MediaItemData({"X"}, {Absent}, {Absent, "1"}, {Absent, "tt9"},
                             {Absent}, {Absent}),
               {<< >>}, {<< >>})

\* the stores two earlier process_api_item calls can leave
SeedStores ==
    {ProcessApiItem(ProcessApiItem(EmptyStore, a, 1, FALSE, "none").st, b, 1, FALSE, "none").st :
        a \in SeedRecords, b \in SeedRecords}

InitIngest ==
    /\ \E st \in SeedStores :
          /\ items = st.items
          /\ metadata = st.metadata
          /\ genre_table = st.genre_table
          /\ country_table = st.country_table
    /\ pc = "idle"
    /\ call = NoCall
    /\ result = NoResult
    /\ run = NoRun
    /\ history = NoHistory
    /\ sync = NoSync

\* handle up to the while loop: the options are read, the counters zeroed
StartRun(page_limit, start_page_link, target_page, fill_empty_fields) ==
    /\ pc = "idle"
    /\ run.phase = "off"
    /\ run' = [NoRun EXCEPT !.phase = "loop",
                            !.page_limit = page_limit,
                            !.start_page_link = start_page_link,
                            !.next_page_link = start_page_link,
                            !.target_page = target_page,
                            !.fill_empty_fields = fill_empty_fields]
    /\ UNCHANGED <<items, metadata, genre_table, country_table, pc, call, result>>
    /\ UNCHANGED <<sync, history>>

\* a loop that asks again for a page whose request failed
RequestedAgain(r, page_count, response) ==
    LET sent == [r EXCEPT !.page_count = page_count,
                          !.requests = @ + 1,
                          !.page_link = IF Truthy(r.next_page_link)
                                        THEN r.next_page_link ELSE None]
        should_process_page == ~(r.target_page # 0 /\ page_count < r.target_page)
    IN IF response.kind \in {"raise", "none"}
       THEN [sent EXCEPT !.failed = TRUE, !.page_count = r.page_count, !.phase = "loop"]
       ELSE [sent EXCEPT !.pending = IF should_process_page THEN response.results ELSE 0,
                         !.delivered = IF should_process_page THEN @ + response.results ELSE @,
                         !.results = response.results,
                         !.skipped = IF should_process_page THEN @ ELSE @ + response.results,
                         !.next_page_link_from_response = response.next_page,
                         !.phase = "page"]

\* a loop that starts processing on the page after the target page
RequestedAfterTarget(r, page_count, response) ==
    LET sent == [r EXCEPT !.page_count = page_count,
                          !.requests = @ + 1,
                          !.page_link = IF Truthy(r.next_page_link)
                                        THEN r.next_page_link ELSE None]
        should_process_page == ~(r.target_page # 0 /\ page_count <= r.target_page)
    IN IF response.kind \in {"raise", "none"}
       THEN [sent EXCEPT !.failed = TRUE, !.phase = "summary"]
       ELSE [sent EXCEPT !.pending = IF should_process_page THEN response.results ELSE 0,
                         !.delivered = IF should_process_page THEN @ + response.results ELSE @,
                         !.results = response.results,
                         !.skipped = IF should_process_page THEN @ ELSE @ + response.results,
                         !.next_page_link_from_response = response.next_page,
                         !.phase = "page"]

\* the run r after the page limit test passed and list_items was called and
\* answered with `response`
Requested(r, page_count, response) ==
    LET sent == [r EXCEPT !.page_count = page_count,
                          !.requests = @ + 1,
                          !.page_link = IF Truthy(r.next_page_link)
                                        THEN r.next_page_link ELSE None]
        should_process_page == ~(r.target_page # 0 /\ page_count < r.target_page)
    IN IF response.kind \in {"raise", "none"}
       THEN [sent EXCEPT !.failed = TRUE, !.phase = "summary"]
       ELSE [sent EXCEPT !.pending = IF should_process_page THEN response.results ELSE 0,
                         !.delivered = IF should_process_page THEN @ + response.results ELSE @,
                         !.results = response.results,
                         !.skipped = IF should_process_page THEN @ ELSE @ + response.results,
                         !.next_page_link_from_response = response.next_page,
                         !.phase = "page"]

\* the top of one iteration of the while loop: the page counter advances, the
\* page limit is tested, the page is requested
FetchPage(response) ==
    /\ run.phase = "loop"
    /\ run.page_limit # NoLimit \/ run.page_count < MaxPages
    /\ run' = IF run.page_limit # NoLimit /\ run.page_count + 1 > run.page_limit
              THEN [run EXCEPT !.page_count = @ + 1, !.phase = "summary"]
              ELSE Requested(run, run.page_count + 1, response)
    /\ UNCHANGED <<items, metadata, genre_table, country_table, pc, call, result>>
    /\ UNCHANGED <<sync, history>>

\* the counters after one item ended with action_taken
Counted(r, action_taken) ==
    [r EXCEPT !.action_taken = action_taken,
              !.total_created_count = IF action_taken = "created" THEN @ + 1 ELSE @,
              !.total_updated_count = IF action_taken = "updated" THEN @ + 1 ELSE @,
              !.total_skipped_count = IF action_taken = "skipped" THEN @ + 1 ELSE @,
              !.total_error_count = IF action_taken = "error" THEN @ + 1 ELSE @]

\* one pass of the for loop: _process_single_item on the next result, then
\* the counters
HandleItem(item_data, fault) ==
    /\ run.phase = "page"
    /\ run.pending > 0
    /\ \E r \in {ProcessSingleItem(Store, item_data.mapped_data, item_data.updated_at,
                                  run.fill_empty_fields, fault)} :
          /\ items' = r.st.items
          /\ metadata' = r.st.metadata
          /\ genre_table' = r.st.genre_table
          /\ country_table' = r.st.country_table
          /\ run' = Counted([run EXCEPT !.pending = @ - 1, !.handled = @ + 1], r.status)
    /\ UNCHANGED <<pc, call, result>>
    /\ UNCHANGED <<sync, history>>

\* an iteration that ends without taking the cursor of the response
EndPageKeepsLink ==
    /\ run.phase = "page"
    /\ run.pending = 0
    /\ run' = [run EXCEPT !.phase = IF Truthy(run.next_page_link_from_response)
                                    THEN "loop" ELSE "summary"]
    /\ UNCHANGED <<items, metadata, genre_table, country_table, pc, call, result>>
    /\ UNCHANGED <<sync, history>>

\* one pass of the for loop on a raw item as the API delivers it.  An entry
\* of 'results' that is no object has no get(): the AttributeError is raised
\* before the try block of _process_single_item, leaves handle, and the
\* command ends with a traceback and status 1; the transaction of the item
\* wrote nothing.  On an object, updated_at is parsed, the item is mapped and
\* the pass goes on as in HandleItem.
HandleRawItem(item_data, fault) ==
    /\ run.phase = "page"
    /\ run.pending > 0
    /\ IF item_data.kind # "dict"
       THEN /\ run' = [run EXCEPT !.phase = "aborted",
                                  !.action_taken = "AttributeError",
                                  !.exit_status = 1,
                                  !.item_data = item_data,
                                  !.mapped_data = Null]
            /\ UNCHANGED <<items, metadata, genre_table, country_table>>
       ELSE \E r \in {ProcessSingleItem(Store, MapKodikItemToModels(item_data),
                                        IsoParse(item_data), run.fill_empty_fields, fault)} :
               /\ items' = r.st.items
               /\ metadata' = r.st.metadata
               /\ genre_table' = r.st.genre_table
               /\ country_table' = r.st.country_table
               /\ run' = [Counted([run EXCEPT !.pending = @ - 1, !.handled = @ + 1], r.status)
                             EXCEPT !.item_data = item_data,
                                    !.mapped_data = IF IsoParse(item_data) = NullTime
                                                    THEN Null
                                                    ELSE MapKodikItemToModels(item_data)]
    /\ UNCHANGED <<pc, call, result>>
    /\ UNCHANGED <<sync, history>>

\* the end of one iteration: the cursor of the response becomes the link of
\* the next request, and the loop ends when there is none
EndPage ==
    /\ run.phase = "page"
    /\ run.pending = 0
    /\ run' = [run EXCEPT !.next_page_link = run.next_page_link_from_response,
                          !.phase = IF Truthy(run.next_page_link_from_response)
                                    THEN "loop" ELSE "summary"]
    /\ UNCHANGED <<items, metadata, genre_table, country_table, pc, call, result>>
    /\ UNCHANGED <<sync, history>>

\* a command that reports the failures it met in its exit status
SummaryFailing ==
    /\ run.phase = "summary"
    /\ run' = [run EXCEPT !.phase = "finished",
                          !.summary = <<run.total_created_count, run.total_updated_count,
                                        run.total_skipped_count, run.total_error_count>>,
                          !.exit_status = IF run.failed \/ run.total_error_count > 0
                                          THEN 1 ELSE 0]
    /\ UNCHANGED <<items, metadata, genre_table, country_table, pc, call, result>>
    /\ UNCHANGED <<sync, history>>

\* the lines after the loop: the totals are written, handle returns and the
\* command ends with status 0
Summary ==
    /\ run.phase = "summary"
    /\ run' = [run EXCEPT !.phase = "finished",
                          !.summary = <<run.total_created_count, run.total_updated_count,
                                        run.total_skipped_count, run.total_error_count>>,
                          !.exit_status = 0]
    /\ UNCHANGED <<items, metadata, genre_table, country_table, pc, call, result>>
    /\ UNCHANGED <<sync, history>>

\* what can fail before the loop: Source.objects.get(slug='kodik') finds no
\* row, KodikApiClient() finds no base URL or token
SetUpFailures == {"source_not_found", "client_not_configured"}

\* handle when its set-up fails: _get_kodik_source or the ValueError handler
\* raises CommandError, which ends the command with status 1 before any
\* request
SetUpFails(failure) ==
    /\ pc = "idle"
    /\ run.phase = "off"
    /\ run' = [NoRun EXCEPT !.phase = "aborted", !.action_taken = failure, !.exit_status = 1]
    /\ UNCHANGED <<items, metadata, genre_table, country_table, pc, call, result>>
    /\ UNCHANGED <<sync, history>>

\* entries of 'results' that are no objects: null, a list
NotObjects == {[kind |-> k, fields |-> << >>] : k \in {"none", "list"}}

NextIngest ==
    \/ \E page_limit \in {NoLimit, MaxPages}, fill_empty_fields \in BOOLEAN :
          StartRun(page_limit, None, 0, fill_empty_fields)
    \/ \E response \in Responses : FetchPage(response)
    \/ \E item_data \in RawItems, fault \in IngestFaults : HandleItem(item_data, fault)
    \/ EndPage
    \/ Summary
    \/ \E failure \in SetUpFailures : SetUpFails(failure)

\* ingestion runs: every item and fault, on a seeded database, by a command
\* started without --start-page-link and --target-page
SpecIngest == InitIngest /\ [][NextIngest]_vars

\* the entries 'results' may hold: objects that differ in how they name
\* themselves (with or without id, title and original title), objects that
\* differ in their ids, material_data and updated_at, the empty object, null
\* and a list
RawDicts ==
    LET Present(d) == Restrict(d, {k \in DOMAIN d : d[k] # Absent})
        Materials ==
            <<[description |-> "D", imdb_id |-> "tt9", genres |-> <<" Action ", " ">>],
              [kinopoisk_id |-> Empty, countries |-> <<"Drama">>]>>
        TitledItems ==
            {[kind |-> "dict",
              fields |-> Present([id |-> i, title |-> t, title_orig |-> o, kinopoisk_id |-> "1",
                                  updated_at |-> "2024-01-02T00:00:00Z"])] :
                i \in {Absent, "movie-1"}, t \in {Absent, None, Empty, "Y"},
                o \in {Absent, Empty, "O"}}
        IdentifiedItems ==
            {[kind |-> "dict",
              fields |-> Present([id |-> "movie-1", title |-> "X", kinopoisk_id |-> kp,
                                  updated_at |-> u])
                         @@ (IF m = 0 THEN << >> ELSE [material_data |-> Materials[m]])] :
                kp \in {Absent, Empty, "1"}, m \in 0..Len(Materials),
                u \in {Absent, "yesterday", "2024-01-01T00:00:00Z", "2024-01-02T00:00:00Z"}}
    IN TitledItems \cup IdentifiedItems \cup NotObjects \cup {[kind |-> "dict", fields |-> << >>]}

\* a caller of the mapper alone, outside a run of the command
MapItem(item_data) ==
    /\ pc = "idle"
    /\ run.phase = "off"
    /\ run' = [NoRun EXCEPT !.action_taken = "mapped",
                            !.item_data = item_data,
                            !.mapped_data = MapKodikItemToModels(item_data)]
    /\ UNCHANGED <<items, metadata, genre_table, country_table, pc, call, result>>
    /\ UNCHANGED <<sync, history>>

NextRawItems ==
    \/ \E item_data \in RawDicts : MapItem(item_data)
    \/ StartRun(1, None, 0, FALSE)
    \/ \E response \in Responses : FetchPage(response)
    \/ \E item_data \in RawDicts : HandleRawItem(item_data, "none")
    \/ EndPage
    \/ Summary
    \/ \E failure \in SetUpFailures : SetUpFails(failure)

\* raw runs: the mapper applied to an entry, and a run of the command with
\* --limit-pages 1 on the entries of the page as the API delivers them
SpecRawItems == InitIngest /\ [][NextRawItems]_vars

----------------------------------------------------------------------------
(* Runs of update_translations.  The clock counts hours; it starts where    *)
(* the timestamps of the API end and every _process_media_item call takes    *)
(* one tick.                                                                 *)

MaxClock == 4       \* the clock stops here

\* the Translation table: kodik ids 1 and 2; the API also names 3
TranslationTable == {1, 2}

\* the variants the search of the API carries.  A variant is its translation
\* id (NoEntity: none given), its link and its seasons in the order of the
\* JSON object; a season is its key, whether its content is a dict, and its
\* episodes; an episode is its key and its content: a string (the link) or
\* a dict with link, title and screenshots.
Variants ==
    LET ApiEpisode(episode_num_str, kind, link, title, screenshots) ==
            [episode_num_str |-> episode_num_str, kind |-> kind, link |-> link,
             title |-> title, screenshots |-> screenshots]
        ApiSeason(season_num_str, kind, episodes) ==
            [season_num_str |-> season_num_str, kind |-> kind, episodes |-> episodes]
        ApiVariant(translation, link, seasons) ==
            [translation |-> translation, link |-> link, seasons |-> seasons]
        PlainEpisode == ApiEpisode("1", "str", "//e1", None, << >>)
        RichEpisode == ApiEpisode("1", "dict", "//e1b", "T", <<"http://s1", "ftp://s">>)
        SecondEpisode == ApiEpisode("2", "dict", "//e2", None, <<"http://s1", "http://s2">>)
        EpisodeZero == ApiEpisode("0", "dict", "//e0", "Z", <<"http://s2">>)
        OneSeason == ApiSeason("1", "dict", <<PlainEpisode>>)
        RichSeason == ApiSeason("1", "dict", <<EpisodeZero, RichEpisode, SecondEpisode>>)
        Specials == ApiSeason("-1", "dict", <<RichEpisode>>)
        SeasonZero == ApiSeason("0", "dict", <<PlainEpisode>>)
        SeasonMinusTwo == ApiSeason("-2", "dict", <<PlainEpisode>>)
        SeasonNoDict == ApiSeason("2", "str", << >>)
    IN [main |-> ApiVariant(1, "//a", << >>),
        moved |-> ApiVariant(1, "//b", <<OneSeason>>),
        other |-> ApiVariant(2, "//a", <<OneSeason>>),
        serial |-> ApiVariant(1, None, <<SeasonMinusTwo, RichSeason>>),
        specials |-> ApiVariant(2, None, <<Specials, SeasonZero>>),
        unknown |-> ApiVariant(3, "//a", <<OneSeason>>),
        missing |-> ApiVariant(NoEntity, "//a", <<OneSeason>>),
        broken |-> ApiVariant(1, "//b", <<OneSeason, SeasonNoDict>>)]

\* what search_by_ids may return: None, a dict without 'results', and lists
\* of up to two variants
SyncResponses ==
    {NoResponse, [kind |-> "no_results", results |-> << >>], [kind |-> "results", results |-> << >>]}
    \cup {[kind |-> "results", results |-> <<Variants[v]>>] : v \in DOMAIN Variants}
    \cup {[kind |-> "results", results |-> <<Variants[v[1]], Variants[v[2]]>>] :
             v \in {<<"unknown", "main">>, <<"serial", "specials">>, <<"main", "broken">>,
                    <<"other", "missing">>}}

\* the stores of the synchronizer runs: two items ingested at different
\* times, and the same with the second item entered by hand, which leaves it
\* without metadata
SyncStores ==
    LET first == [media_item_data |-> [title |-> "X", kinopoisk_id |-> "1"],
                  genres |-> << >>, countries |-> << >>]
        second == [media_item_data |-> [title |-> "Y", imdb_id |-> "tt9"],
                   genres |-> << >>, countries |-> << >>]
        Ingested(t) == ProcessApiItem(ProcessApiItem(EmptyStore, first, 1, FALSE, "none").st,
                                      second, t, FALSE, "none").st
    IN {Ingested(t) : t \in Times}
       \cup {[Ingested(1) EXCEPT !.metadata = Restrict(@, {1})]}

\* the tables an earlier synchronization of the first item left
SyncTables ==
    {NoTables}
    \cup {ProcessMediaItem(NoTables, 1, TRUE, TranslationTable,
                           [kind |-> "results", results |-> <<Variants[v]>>], FALSE, 1).tables :
             v \in {"moved", "other"}}

InitSync ==
    /\ \E st \in SyncStores :
          /\ items = st.items
          /\ metadata = st.metadata
          /\ genre_table = st.genre_table
          /\ country_table = st.country_table
    /\ pc = "idle"
    /\ call = NoCall
    /\ result = NoResult
    /\ run = NoRun
    /\ history = NoHistory
    /\ \E tables \in SyncTables :
          sync = [NoSync EXCEPT !.tables = tables,
                                !.translation_map = TranslationTable,
                                !.now = MaxTime,
                                !.synchronized_at[1] = IF tables = NoTables THEN NullTime ELSE 1]

\* a filter that skips the items synchronized within the last skip_hours
NotRecentlySynchronized(pk, skip_hours) ==
    \/ skip_hours = NoSkip
    \/ sync.synchronized_at[pk] = NullTime
    \/ sync.synchronized_at[pk] < sync.now - skip_hours

\* the filter of --skip-recently-updated-meta: the items whose metadata of
\* the Kodik source has no timestamp, or one before skip_time
NotRecentlyUpdated(pk, skip_hours) ==
    \/ skip_hours = NoSkip
    \/ pk \notin DOMAIN metadata
    \/ metadata[pk] = NullTime
    \/ metadata[pk] < sync.now - skip_hours

\* handle up to the for loop.  pk_list is the set of --pk, empty under --all;
\* limit and skip_hours count under --all only; the order of the queryset is
\* any (order_by('?') under --all)
StartSync(pk_list, limit, skip_hours, cleanup) ==
    /\ sync.phase \in {"off", "finished"}
    /\ \E selected \in {IF pk_list # {}
                       THEN pk_list \cap DOMAIN items
                       ELSE {pk \in DOMAIN items : NotRecentlyUpdated(pk, skip_hours)}} :
          \E order \in {q \in [1..Cardinality(selected) -> selected] :
                           \A i, j \in DOMAIN q : i # j => q[i] # q[j]} :
             \E queue \in {IF pk_list = {} /\ limit # NoLimit /\ Len(order) > limit
                           THEN SubSeq(order, 1, limit) ELSE order} :
                sync' = [sync EXCEPT !.phase = "loop",
                                     !.cleanup = cleanup,
                                     !.skip_hours = IF pk_list = {} THEN skip_hours ELSE NoSkip,
                                     !.selected = selected,
                                     !.queue = queue,
                                     !.total_items = Len(queue),
                                     !.processed_count = 0,
                                     !.started_at = sync.now]
    /\ UNCHANGED <<items, metadata, genre_table, country_table, pc, call, result, run, history>>

\* what _process_media_item returned
Returned(outcome) == IF outcome \in {"processed", "no_variants"} THEN 1 ELSE 0

\* a for loop that lets the exception of an item end the command
SyncedOrStopped(r, media_item, response) ==
    [sync EXCEPT !.phase = IF r.outcome = "raised" THEN "finished" ELSE @,
                 !.tables = r.tables,
                 !.queue = IF r.outcome = "raised" THEN << >> ELSE Tail(@),
                 !.processed_count = @ + Returned(r.outcome),
                 !.now = @ + 1,
                 !.last = [media_item |-> media_item, response |-> response,
                           outcome |-> r.outcome,
                           processed_link_pks |-> r.processed_link_pks,
                           check_start_time |-> sync.now,
                           cleanup |-> sync.cleanup,
                           repeated |-> /\ sync.last.media_item = media_item
                                        /\ sync.last.response = response
                                        /\ sync.last.cleanup = sync.cleanup],
                 !.synchronized_at[media_item] = IF Returned(r.outcome) = 1 THEN sync.now ELSE @]

\* the run after one pass of the for loop: what the call returned is added
\* to processed_count; an exception is logged and the loop goes on
Synced(r, media_item, response) ==
    [sync EXCEPT !.tables = r.tables,
                 !.queue = Tail(@),
                 !.processed_count = @ + Returned(r.outcome),
                 !.now = @ + 1,
                 !.last = [media_item |-> media_item, response |-> response,
                           outcome |-> r.outcome,
                           processed_link_pks |-> r.processed_link_pks,
                           check_start_time |-> sync.now,
                           cleanup |-> sync.cleanup,
                           repeated |-> /\ sync.last.media_item = media_item
                                        /\ sync.last.response = response
                                        /\ sync.last.cleanup = sync.cleanup],
                 !.synchronized_at[media_item] = IF Returned(r.outcome) = 1 THEN sync.now ELSE @]

\* one pass of the for loop of handle: _process_media_item on the next item
\* of the queryset, with what search_by_ids answers
SyncItem(response) ==
    /\ sync.phase = "loop"
    /\ sync.queue # << >>
    /\ sync.now < MaxClock
    /\ \E r \in {ProcessMediaItem(sync.tables, Head(sync.queue),
                                  \E f \in IdFields : Truthy(items[Head(sync.queue)][f]),
                                  sync.translation_map, response, sync.cleanup, sync.now)} :
          sync' = Synced(r, Head(sync.queue), response)
    /\ UNCHANGED <<items, metadata, genre_table, country_table, pc, call, result, run, history>>

\* the end of handle: the loop is through, the count is written
FinishSync ==
    /\ sync.phase = "loop"
    /\ sync.queue = << >>
    /\ sync' = [sync EXCEPT !.phase = "finished"]
    /\ UNCHANGED <<items, metadata, genre_table, country_table, pc, call, result, run, history>>

NextSync ==
    \/ \E pk_list \in {{1}, {1, 2}}, cleanup \in BOOLEAN :
          StartSync(pk_list, NoLimit, NoSkip, cleanup)
    \/ \E limit \in {NoLimit, 1}, skip_hours \in {NoSkip, 1}, cleanup \in BOOLEAN :
          StartSync({}, limit, skip_hours, cleanup)
    \/ \E response \in SyncResponses : SyncItem(response)
    \/ FinishSync

\* synchronizer runs: runs of update_translations, one after the other, on
\* two ingested items
SpecSync == InitSync /\ [][NextSync]_vars

\* a link of the first item that belongs to another source than Kodik, as
\* the admin site stores one
OtherSourceLink ==
    [pk |-> 1, source |-> "other", media_item |-> 1, episode |-> NoEpisode,
     translation |-> 1, player_link |-> "//a", last_seen_at |-> NullTime]

\* the tables of InitSync, each with the link of the other source in it
\* before the first synchronization
InitOtherSource ==
    /\ \E st \in SyncStores :
          /\ items = st.items
          /\ metadata = st.metadata
          /\ genre_table = st.genre_table
          /\ country_table = st.country_table
    /\ pc = "idle"
    /\ call = NoCall
    /\ result = NoResult
    /\ run = NoRun
    /\ history = NoHistory
    /\ \E seeded \in BOOLEAN, v \in {"moved", "other"} :
          \E tables \in {IF seeded
                         THEN ProcessMediaItem([NoTables EXCEPT !.links = {OtherSourceLink}], 1, TRUE,
                                               TranslationTable,
                                               [kind |-> "results", results |-> <<Variants[v]>>],
                                               FALSE, 1).tables
                         ELSE [NoTables EXCEPT !.links = {OtherSourceLink}]} :
             sync = [NoSync EXCEPT !.tables = tables,
                                   !.translation_map = TranslationTable,
                                   !.now = MaxTime,
                                   !.synchronized_at[1] = IF seeded THEN 1 ELSE NullTime]

\* synchronizer runs on tables that hold a link of another source
SpecOtherSource == InitOtherSource /\ [][NextSync]_vars

\* the caller of the re-ingestion runs notes every record process_api_item
\* accepted and the entity it returned with it
InitReingest ==
    /\ items = << >>
    /\ metadata = << >>
    /\ genre_table = {}
    /\ country_table = {}
    /\ pc = "idle"
    /\ call = NoCall
    /\ result = NoResult
    /\ run = NoRun
    /\ sync = NoSync
    /\ history = [NoHistory EXCEPT !.on = TRUE]

\* the records of the re-ingestion runs: one title, two id fields
NextReingest ==
    \/ \E mapped_data \in MappedData(MediaItemData({"X"}, {Absent}, {Absent, "1"}, {Absent, "tt9"},
                                                   {Absent}, {Absent}),
                                     {<< >>}, {<< >>}),
          api_updated_at \in Times :
          Fetch(mapped_data, api_updated_at, FALSE, "none")
    \/ Process
    \/ Continue

\* re-ingestion runs: records that come back after others have widened
\* their entity
SpecReingest == InitReingest /\ [][NextReingest]_vars

\* the raw items of the paging runs: one that matches a seeded row, one whose
\* mapping fails
PagingItems ==
    {[mapped_data |-> m, updated_at |-> MaxTime] :
        m \in MappedData(MediaItemData({"Y"}, {Absent}, {"1"}, {Absent}, {Absent}, {Absent}),
                         {<< >>}, {<< >>}) \cup {<< >>}}

StartPaging ==
    \E page_limit \in {NoLimit} \cup 0..MaxPages, start_page_link \in {None} \cup Links, target_page \in 0..MaxPages :
        StartRun(page_limit, start_page_link, target_page, FALSE)

FetchAnyPage == \E response \in Responses : FetchPage(response)

HandlePagingItem == \E item_data \in PagingItems : HandleItem(item_data, "none")

NextPaging ==
    \/ StartPaging
    \/ FetchAnyPage
    \/ HandlePagingItem
    \/ EndPage
    \/ Summary

\* handle is a sequential program that the interpreter keeps running: each of
\* its steps, once enabled, is taken
PagingFairness ==
    /\ WF_vars(FetchAnyPage)
    /\ WF_vars(HandlePagingItem)
    /\ WF_vars(EndPage)
    /\ WF_vars(Summary)

\* paging runs: every combination of --limit-pages, --start-page-link and
\* --target-page against every behaviour of the API, by a command that keeps
\* running
SpecPaging == InitIngest /\ [][NextPaging]_vars /\ PagingFairness

\* the raw items of the exit runs are those of the paging runs and one that
\* carries the ids of two seeded rows
NextExit ==
    \/ StartRun(NoLimit, None, 0, FALSE)
    \/ \E response \in Responses : FetchPage(response)
    \/ \E item_data \in PagingItems
                        \cup {[mapped_data |-> m, updated_at |-> MaxTime] :
                                 m \in MappedData(MediaItemData({"Y"}, {Absent}, {"1"}, {"tt9"},
                                                                {Absent}, {Absent}),
                                                  {<< >>}, {<< >>})},
          fault \in {"none", "metadata_get_or_create"} :
          HandleItem(item_data, fault)
    \/ \E item_data \in NotObjects : HandleRawItem(item_data, "none")
    \/ EndPage
    \/ Summary
    \/ \E failure \in SetUpFailures : SetUpFails(failure)

\* exit runs: every way the command ends, on items that are updated, skipped
\* and failed, entries that are no objects, failed requests and failed set-up
SpecExit == InitIngest /\ [][NextExit]_vars

----------------------------------------------------------------------------
(* Vocabulary of the properties *)

Stepped == pc = "pending" /\ pc' = "done"

IsError(status) == status \in {"error_MediaItemProcessorError", "error_outer_processor"}

\* the media_item_data of the call in hand, and its four ids
CallData == Get(call.mapped_data, "media_item_data", << >>)
CallIds == [f \in IdFields |-> Get(CallData, f, None)]

\* the non-null ids of a row or of a record, as (field, value) pairs
IdSet(ids) == {<<f, ids[f]>> : f \in {g \in IdFields : ids[g] # None}}

HasTitle == Truthy(Get(CallData, "title", None))

CallGenres == Get(call.mapped_data, "genres", << >>)
CallCountries == Get(call.mapped_data, "countries", << >>)

\* the non-id fields the record carries
CallFields == DOMAIN CallData \ IdFields

\* the rows whose four ids are those of the record
ExactRows(rows) == {pk \in DOMAIN rows : IdSet(rows[pk]) = IdSet(CallIds)}

\* the rows whose non-null ids are a proper, non-empty part of the record's
ProperSubsetRows(rows) ==
    {pk \in DOMAIN rows : /\ IdSet(rows[pk]) # {}
                          /\ IdSet(rows[pk]) \subseteq IdSet(CallIds)
                          /\ IdSet(rows[pk]) # IdSet(CallIds)}

\* the rows that hold one of the record's id values
SharingRows(rows) == {pk \in DOMAIN rows : IdSet(rows[pk]) \cap IdSet(CallIds) # {}}

\* the names a list stands for: trimmed, blanks dropped, case folded
NamedKeys(names) ==
    {Lower(Strip(names[i])) : i \in {j \in DOMAIN names : Strip(names[j]) # Empty}}

\* related is exactly the rows of table the list names, one per name
Converged(related, table, names) ==
    /\ related = {obj \in table : Lower(obj) \in NamedKeys(names)}
    /\ \A k \in NamedKeys(names) : Cardinality({obj \in related : Lower(obj) = k}) = 1

\* the rows that meet the four conditions of a subset candidate: (i) shares a
\* non-null id value with the record, (ii) holds no non-null id that differs
\* from the record's value in a field the record supplies, (iii) every non-null
\* id of its own is in the record with the same value, (iv) the record supplies
\* an id it lacks
ValidSubsetRows(rows) ==
    {pk \in DOMAIN rows :
        /\ IdSet(rows[pk]) \cap IdSet(CallIds) # {}
        /\ \A f \in IdFields :
              (rows[pk][f] # None /\ CallIds[f] # None) => rows[pk][f] = CallIds[f]
        /\ IdSet(rows[pk]) \subseteq IdSet(CallIds)
        /\ \E f \in IdFields : CallIds[f] # None /\ rows[pk][f] = None}

\* the entity _find_subset_match returns for the record in hand
Selected == FindSubsetMatch(items, ApiNonEmptyIds(CallIds))

\* the rank of a candidate: 1 when it owns kinopoisk_id or imdb_id, else 0, and
\* below both when the record supplies kinopoisk_id or imdb_id
Rank(row) ==
    IF row.kinopoisk_id # None \/ row.imdb_id # None THEN 1
    ELSE IF CallIds.kinopoisk_id # None \/ CallIds.imdb_id # None THEN -1
    ELSE 0

\* the store after the step
StoreAfter == [items |-> items', metadata |-> metadata',
               genre_table |-> genre_table', country_table |-> country_table']

----------------------------------------------------------------------------
(* C1: no two MediaItem rows hold the same non-null value in the same         *)
(* external-id column, after any sequence of process_api_item calls.          *)
C1_UniqueExternalIds ==
    \A p, q \in DOMAIN items :
        p # q => IdSet(items[p]) \cap IdSet(items[q]) = {}

\* a call was refused by the unique constraints while two rows are stored
C1_Witness ==
    /\ pc = "done"
    /\ Len(items) = 2
    /\ result.needs_rollback
    /\ \E pk \in DOMAIN items : IdSet(items[pk]) \cap IdSet(CallIds) # {}

(* C3: for any existing MediaItem with non-null id set S and any record whose *)
(* id set S' contains S with equal values and adds a new id, the call sets    *)
(* every id of S' on that entity, returns it with 'updated', and the number   *)
(* of rows does not grow.                                                     *)
C3_Widening ==
    [][Stepped =>
        \A pk \in DOMAIN items :
            (IdSet(items[pk]) # {} /\ IdSet(items[pk]) \subseteq IdSet(CallIds)
                                   /\ IdSet(items[pk]) # IdSet(CallIds))
            => /\ result'.status = "updated"
               /\ result'.media_item = pk
               /\ IdSet(items'[pk]) = IdSet(CallIds)
               /\ Len(items') = Len(items)]_vars

(* C2: a record with a title and an id that shares no id value with any      *)
(* stored entity is created by the first call; a second call with the same    *)
(* record and timestamp returns the same entity with 'skipped' and changes    *)
(* nothing, so exactly one MediaItem stands for the record.                   *)
C2_Idempotent ==
    [][(Stepped /\ HasTitle /\ IdSet(CallIds) # {} /\ SharingRows(items) = {})
        => /\ result'.status = "created"
           /\ Len(items') = Len(items) + 1
           /\ \A fill \in BOOLEAN :
                LET again == ProcessApiItem(StoreAfter, call.mapped_data,
                                            call.api_updated_at, fill, "none")
                IN /\ again.status = "skipped"
                   /\ again.media_item = result'.media_item
                   /\ again.st = StoreAfter
                   /\ ExactRows(again.st.items) = {result'.media_item}]_vars

\* the identical record came again and was skipped
C2_Witness ==
    /\ pc = "done"
    /\ result.status = "skipped"
    /\ result.match = "exact"
    /\ Len(items) = 2
    /\ metadata[result.media_item] = call.api_updated_at
    /\ \A f \in CallFields : items[result.media_item][f] = CallData[f]
    /\ Converged(items[result.media_item].genres, genre_table, CallGenres)

(* C2 as stated: the same, for any store in which no entity is an exact or a  *)
(* proper-subset match of the record.                                         *)
C2_AsStated ==
    [][(Stepped /\ HasTitle /\ IdSet(CallIds) # {}
                /\ ExactRows(items) = {} /\ ProperSubsetRows(items) = {})
        => /\ result'.status = "created"
           /\ Len(items') = Len(items) + 1
           /\ \A fill \in BOOLEAN :
                LET again == ProcessApiItem(StoreAfter, call.mapped_data,
                                            call.api_updated_at, fill, "none")
                IN /\ again.status = "skipped"
                   /\ again.media_item = result'.media_item
                   /\ again.st = StoreAfter]_vars

(* C4: with fill-empty-fields off, for an entity whose metadata timestamp is  *)
(* T and a record with exactly its four ids, changed field values and         *)
(* timestamp T': if T' <= T the call returns 'skipped' and the fields, the    *)
(* genres, the countries and the metadata timestamp stay; if T' > T the       *)
(* mapped non-id fields are applied, genres and countries refreshed, the      *)
(* timestamp becomes T' and the status is 'updated'.                          *)
C4_NewerWins ==
    [][Stepped =>
        \A pk \in ExactRows(items) :
            (/\ ~call.fill_empty_fields
             /\ pk \in DOMAIN metadata /\ metadata[pk] # NullTime
             /\ \/ \E f \in CallFields : items[pk][f] # CallData[f]
                \/ ~Converged(items[pk].genres, genre_table, CallGenres))
            => IF call.api_updated_at <= metadata[pk]
               THEN /\ result'.status = "skipped"
                    /\ result'.media_item = pk
                    /\ StoreAfter = Store
               ELSE /\ result'.status = "updated"
                    /\ result'.media_item = pk
                    /\ \A f \in CallFields : items'[pk][f] = CallData[f]
                    /\ Converged(items'[pk].genres, genre_table', CallGenres)
                    /\ Converged(items'[pk].countries, country_table', CallCountries)
                    /\ metadata'[pk] = call.api_updated_at]_vars

\* an older record with another title and other genres was skipped
C4_Witness ==
    /\ pc = "done"
    /\ result.status = "skipped"
    /\ result.match = "exact"
    /\ ~call.fill_empty_fields
    /\ call.api_updated_at < metadata[result.media_item]
    /\ items[result.media_item].title # CallData.title
    /\ ~Converged(items[result.media_item].genres, genre_table, CallGenres)

(* C5: at equal timestamps, for an exact match, a stored field that is null   *)
(* or empty where the record has a non-empty value is populated (status       *)
(* 'updated') when fill-empty-fields is set and left alone (status 'skipped') *)
(* when it is not; a stored non-empty field is never overwritten.             *)
C5_FillEmpty ==
    [][Stepped =>
        \A pk \in ExactRows(items) :
            (pk \in DOMAIN metadata /\ metadata[pk] = call.api_updated_at)
            => /\ result'.media_item = pk
               /\ ~call.fill_empty_fields => result'.status = "skipped" /\ StoreAfter = Store
               /\ \A f \in CallFields :
                    IF Truthy(items[pk][f]) THEN items'[pk][f] = items[pk][f]
                    ELSE Truthy(CallData[f]) =>
                         IF call.fill_empty_fields
                         THEN items'[pk][f] = CallData[f] /\ result'.status = "updated"
                         ELSE items'[pk][f] = items[pk][f]]_vars

\* the description was filled in and the differing title kept
C5_Witness ==
    /\ pc = "done"
    /\ call.fill_empty_fields
    /\ result.status = "updated"
    /\ result.match = "exact"
    /\ ~result.should_update_main_data
    /\ result.update_fields = {"description"}
    /\ items[result.media_item].description = CallData.description
    /\ items[result.media_item].title # CallData.title

(* C6: after process_api_item creates an entity, or updates it on the         *)
(* should-update path, the entity's genres are exactly the Genre rows named   *)
(* by the mapped list after trimming and case-insensitive de-duplication      *)
(* (likewise the countries): names no longer listed are removed, new names    *)
(* added, their rows created if absent, and the relation is rewritten only    *)
(* when the current set differs from the target set.                          *)
C6_RelationsConverge ==
    [][(Stepped /\ (result'.status = "created" \/ result'.should_update_main_data))
        => LET e == result'.media_item
               old_genres == IF e \in DOMAIN items THEN items[e].genres ELSE {}
               old_countries == IF e \in DOMAIN items THEN items[e].countries ELSE {}
           IN /\ e \in DOMAIN items'
              /\ Converged(items'[e].genres, genre_table', CallGenres)
              /\ Converged(items'[e].countries, country_table', CallCountries)
              /\ genre_table \subseteq genre_table'
              /\ country_table \subseteq country_table'
              /\ \A obj \in genre_table' \ genre_table :
                    /\ obj \in items'[e].genres
                    /\ \E i \in DOMAIN CallGenres : obj = Strip(CallGenres[i])
              /\ \A obj \in country_table' \ country_table :
                    /\ obj \in items'[e].countries
                    /\ \E i \in DOMAIN CallCountries : obj = Strip(CallCountries[i])
              /\ "genres" \in result'.written <=> items'[e].genres # old_genres
              /\ "countries" \in result'.written <=> items'[e].countries # old_countries]_vars

\* an update whose padded, re-cased genre names stand for the stored genres:
\* the genres were not rewritten, the countries were
C6_Witness ==
    /\ pc = "done"
    /\ result.status = "updated"
    /\ result.should_update_main_data
    /\ result.written = {"countries"}
    /\ Cardinality(items[result.media_item].genres) = 2
    /\ \E i \in DOMAIN CallGenres : CallGenres[i] \notin genre_table

(* C7: a record with a title and an id, none of whose id values is held by a  *)
(* stored entity, makes exactly one new MediaItem with the mapped fields, the *)
(* resolved genres and countries, and a metadata row with the record's        *)
(* timestamp; the status is 'created'.                                        *)
C7_Create ==
    [][(Stepped /\ HasTitle /\ IdSet(CallIds) # {} /\ SharingRows(items) = {})
        => LET new == Len(items) + 1 IN
           /\ result'.status = "created"
           /\ result'.media_item = new
           /\ DOMAIN items' = DOMAIN items \cup {new}
           /\ \A pk \in DOMAIN items : items'[pk] = items[pk]
           /\ IdSet(items'[new]) = IdSet(CallIds)
           /\ \A f \in CallFields : items'[new][f] = CallData[f]
           /\ Converged(items'[new].genres, genre_table', CallGenres)
           /\ Converged(items'[new].countries, country_table', CallCountries)
           /\ DOMAIN metadata' = DOMAIN metadata \cup {new}
           /\ metadata'[new] = call.api_updated_at
           /\ \A pk \in DOMAIN metadata : metadata'[pk] = metadata[pk]]_vars

\* a second entity was created, with a description and a genre
C7_Witness ==
    /\ pc = "done"
    /\ result.status = "created"
    /\ result.media_item = 2
    /\ items[2].description = "d1"
    /\ items[2].genres = {"Action"}
    /\ metadata[2] = call.api_updated_at

(* C7 as stated: the same, for any record with a title and an id that has     *)
(* neither an exact nor a subset match.                                       *)
C7_AsStated ==
    [][(Stepped /\ HasTitle /\ IdSet(CallIds) # {}
                /\ ExactRows(items) = {} /\ ProperSubsetRows(items) = {})
        => /\ result'.status = "created"
           /\ result'.media_item = Len(items) + 1
           /\ Len(items') = Len(items) + 1
           /\ metadata'[Len(items) + 1] = call.api_updated_at]_vars

(* C8: whenever process_api_item ends with an error outcome, the MediaItem    *)
(* rows, the genre/country relations and tables and the metadata rows are     *)
(* what they were before the call.                                            *)
C8_ErrorsRollBack ==
    [][(Stepped /\ IsError(result'.status)) => StoreAfter = Store]_vars

(* C9: when two or more stored MediaItems carry exactly the record's          *)
(* combination of the four ids, the call returns no entity and an error       *)
(* status, and creates or modifies nothing.                                   *)
C9_MultipleExactMatches ==
    [][(Stepped /\ HasTitle /\ IdSet(CallIds) # {} /\ Cardinality(ExactRows(items)) >= 2)
        => /\ IsError(result'.status)
           /\ result'.media_item = NoEntity
           /\ StoreAfter = Store]_vars

\* a record met two rows with its ids and was refused
C9_Witness ==
    /\ pc = "done"
    /\ result.match = "multiple"
    /\ Cardinality(ExactRows(items)) = 2
    /\ IsError(result.status)

(* C10: a record whose four ids are all null or empty leaves the store        *)
(* unchanged and returns no entity; its status is 'skipped_no_ids' when it    *)
(* has a non-empty title and 'skipped_missing_title' when it has none.        *)
C10_NoIds ==
    [][(Stepped /\ \A f \in IdFields : ~Truthy(CallIds[f]))
        => /\ result'.media_item = NoEntity
           /\ StoreAfter = Store
           /\ result'.status = IF HasTitle THEN "skipped_no_ids"
                               ELSE "skipped_missing_title"]_vars

\* a titled record with an empty-string id and null ids was skipped while an
\* entity is stored
C10_Witness ==
    /\ pc = "done"
    /\ result.status = "skipped_no_ids"
    /\ Len(items) >= 1
    /\ \E f \in IdFields : CallIds[f] = Empty
    /\ \E f \in IdFields : CallIds[f] = None

(* C10 as stated: such a record returns (None, 'skipped_no_ids') and changes  *)
(* nothing, whatever its title and other fields.                              *)
C10_AsStated ==
    [][(Stepped /\ \A f \in IdFields : ~Truthy(CallIds[f]))
        => /\ result'.media_item = NoEntity
           /\ result'.status = "skipped_no_ids"
           /\ StoreAfter = Store]_vars

(* C11: whenever the record resolves to an entity by subset match and no      *)
(* other entity holds one of the record's id values, then for every record    *)
(* timestamp T' the entity receives every id the record supplies, the other   *)
(* mapped fields are applied, genres and countries are refreshed, the         *)
(* metadata timestamp is set to T' and the status is 'updated'.               *)
C11_SubsetUnguarded ==
    [][Stepped =>
        \A pk \in DOMAIN items :
            (/\ HasTitle
             /\ ExactMatches(items, CallIds) = {}
             /\ FindSubsetMatch(items, ApiNonEmptyIds(CallIds)) = pk
             /\ SharingRows(items) \subseteq {pk})
            => /\ result'.status = "updated"
               /\ result'.media_item = pk
               /\ Len(items') = Len(items)
               /\ IdSet(items'[pk]) = IdSet(CallIds)
               /\ \A f \in CallFields : items'[pk][f] = CallData[f]
               /\ Converged(items'[pk].genres, genre_table', CallGenres)
               /\ Converged(items'[pk].countries, country_table', CallCountries)
               /\ metadata'[pk] = call.api_updated_at]_vars

\* a subset match at the earliest timestamp gave the entity a second id, the
\* record's title and its genre
C11_Witness ==
    /\ pc = "done"
    /\ result.match = "subset"
    /\ result.status = "updated"
    /\ call.api_updated_at = 1
    /\ metadata[result.media_item] = 1
    /\ Cardinality(IdSet(items[result.media_item])) >= 2
    /\ items[result.media_item].title = "Y"
    /\ items[result.media_item].genres = {"Action"}

(* C11 as stated: the same for every record that resolves to an entity by     *)
(* subset match.                                                              *)
C11_AsStated ==
    [][Stepped =>
        \A pk \in DOMAIN items :
            (/\ HasTitle
             /\ ExactMatches(items, CallIds) = {}
             /\ FindSubsetMatch(items, ApiNonEmptyIds(CallIds)) = pk)
            => /\ result'.status = "updated"
               /\ result'.media_item = pk
               /\ IdSet(items'[pk]) = IdSet(CallIds)
               /\ metadata'[pk] = call.api_updated_at]_vars

(* C12: when the exact match fails, _find_subset_match selects an entity if   *)
(* and only if some entity meets the conditions (i)-(iv) of a subset          *)
(* candidate, and the selected entity meets them.                             *)
C12_SubsetSelection ==
    [][(Stepped /\ HasTitle /\ IdSet(CallIds) # {} /\ ExactMatches(items, CallIds) = {})
        => /\ (Selected # NoEntity) <=> (ValidSubsetRows(items) # {})
           /\ (result'.match = "subset") <=> (ValidSubsetRows(items) # {})
           /\ Selected # NoEntity => Selected \in ValidSubsetRows(items)]_vars

C14_RelationFailureSwallowed ==
    [][(Stepped /\ result'.m2m_raised)
        => /\ ~IsError(result'.status)
           /\ result'.media_item \in DOMAIN items'
           /\ \A f \in CallFields : items'[result'.media_item][f] = CallData[f]]_vars

(* C15: every call of process_api_item returns a status from the closed set   *)
(* created, updated, skipped, error_MediaItemProcessorError,                  *)
(* error_outer_processor, skipped_no_ids, skipped_missing_title,              *)
(* skipped_mapping_failed.                                                    *)
C15_StatusSet ==
    pc = "done" =>
        result.status \in {"created", "updated", "skipped",
                           "error_MediaItemProcessorError", "error_outer_processor",
                           "skipped_no_ids", "skipped_missing_title",
                           "skipped_mapping_failed"}

\* a call ended in the outer handler
C15_Witness ==
    /\ pc = "done"
    /\ result.status = "error_outer_processor"
    /\ call.fault = "metadata_get_or_create"

(* C15 as stated: the closed set is created, updated, skipped, error,         *)
(* skipped_no_ids, skipped_missing_title, skipped_mapping_failed.             *)
C15_AsStated ==
    pc = "done" =>
        result.status \in {"created", "updated", "skipped", "error",
                           "skipped_no_ids", "skipped_missing_title",
                           "skipped_mapping_failed"}

(* C16: empty mapped data returns no entity and 'skipped_mapping_failed';     *)
(* mapped data without a title returns no entity and 'skipped_missing_title', *)
(* with or without external ids; in both cases the store is unchanged,        *)
(* whatever the database would have done.                                     *)
C16_EarlyRejection ==
    [][Stepped =>
        /\ DOMAIN call.mapped_data = {}
           => /\ result'.status = "skipped_mapping_failed"
              /\ result'.media_item = NoEntity
              /\ StoreAfter = Store
        /\ (DOMAIN call.mapped_data # {} /\ ~HasTitle)
           => /\ result'.status = "skipped_missing_title"
              /\ result'.media_item = NoEntity
              /\ StoreAfter = Store]_vars

\* a record with an id and no title was rejected while an entity with that id
\* is stored and the database was about to fail
C16_Witness ==
    /\ pc = "done"
    /\ result.status = "skipped_missing_title"
    /\ CallIds.kinopoisk_id = "1"
    /\ call.fault # "none"
    /\ \E pk \in DOMAIN items : items[pk].kinopoisk_id = "1"

\* the create/update/skip/error decision a returned status stands for
Decision(status) ==
    CASE status = "created" -> "create"
      [] status = "updated" -> "update"
      [] status \in {"skipped", "skipped_no_match", "skipped_no_ids",
                     "skipped_missing_title", "skipped_mapping_failed"} -> "skip"
      [] OTHER -> "error"

\* C17: the per-item step of the ingestion command is the Upsert Engine: on
\* every store and every raw item with a parseable timestamp (and no database
\* fault) _process_single_item takes the decision process_api_item takes on
\* the mapped record and leaves the store process_api_item leaves, so that an
\* item with an id and no match is created.
C17_UpsertEngine ==
    [][\A item_data \in RawItems :
          (item_data.updated_at # NullTime /\ HandleItem(item_data, "none"))
          => \A p \in {ProcessApiItem(Store, item_data.mapped_data, item_data.updated_at,
                                      run.fill_empty_fields, "none")} :
                /\ Decision(run'.action_taken) = Decision(p.status)
                /\ StoreAfter = p.st]_vars

\* the four run-level counters, in the order of the summary
Counters ==
    <<run.total_created_count, run.total_updated_count,
      run.total_skipped_count, run.total_error_count>>

Counted4 ==
    run.total_created_count + run.total_updated_count
    + run.total_skipped_count + run.total_error_count

\* C18: in an ingestion run every item handled is counted in exactly one of
\* created/updated/skipped/error: the four counters sum to the number of
\* items given to _process_single_item, and once a page is over, to the
\* number of items the processed pages carried.
C18_EveryItemCounted ==
    /\ Counted4 = run.handled
    /\ run.phase \in {"loop", "summary", "finished"} => run.handled = run.delivered
    /\ run.phase = "finished" => run.summary = Counters

\* the paging loop is over
LoopOver == run.phase \in {"summary", "finished"}

\* C19: a failed page request (list_items raises or returns None) ends the
\* paging loop at once: from then on no page is requested, the failed request
\* is not repeated, the counters keep what was counted, and the summary with
\* these counters is written.
C19_FailedRequestStops ==
    /\ [](run.failed => LoopOver)
    /\ [][run.failed => /\ run'.requests = run.requests
                        /\ run'.page_count = run.page_count
                        /\ Counters' = Counters]_vars
    /\ (run.failed ~> (run.phase = "finished" /\ run.summary = Counters))

\* a run that had counted an item when a later request failed, and ended
C19_Witness ==
    /\ run.failed
    /\ run.phase = "finished"
    /\ run.requests = 2
    /\ run.total_updated_count > 0
    /\ run.summary = Counters

\* a step of the run that requests a page
Requests == run'.requests = run.requests + 1

\* C20: pages are fetched one after another: a page is requested only when
\* every item of the pages before it that were to be processed has been
\* handled, with the next_page cursor of the page before it (the first with
\* --start-page-link, by parameters when there is none); the loop ends on a
\* response without next_page or on the page limit (or on a failed request),
\* so that --limit-pages L means at most L requests and a run that ends.
C20_SequentialPaging ==
    /\ [][Requests =>
             /\ run.pending = 0
             /\ run.handled = run.delivered
             /\ run'.page_count = run'.requests
             /\ run'.page_link = IF run.requests = 0 THEN run.start_page_link
                                 ELSE run.next_page_link_from_response]_vars
    /\ [](LoopOver => \/ run.failed
                      \/ run.page_limit # NoLimit /\ run.page_count > run.page_limit
                      \/ run.requests > 0 /\ ~Truthy(run.next_page_link_from_response))
    /\ [](run.page_limit # NoLimit => run.requests <= run.page_limit)
    /\ ((run.phase # "off" /\ run.page_limit # NoLimit) ~> run.phase = "finished")

\* a run under --limit-pages MaxPages that followed a cursor to its last page,
\* met another cursor there, and ended on the limit
C20_Witness ==
    /\ run.phase = "finished"
    /\ run.page_limit = MaxPages
    /\ run.requests = MaxPages
    /\ run.page_link \in Links
    /\ Truthy(run.next_page_link_from_response)
    /\ run.handled > 0
    /\ ~run.failed

\* the command has returned to the shell
Exited == run.phase \in {"finished", "aborted"}

MapperCalled ==
    \/ run.action_taken = "mapped"
    \/ run.phase # "aborted" /\ run.item_data.kind = "dict" /\ IsoParse(run.item_data) # NullTime

\* the mapper gives up on the item: it is no object or an empty one, has no
\* 'id' key, or neither its title nor its original title is non-empty
GivesUp(item_data) ==
    \/ item_data.kind # "dict"
    \/ DOMAIN item_data.fields = {}
    \/ "id" \notin DOMAIN item_data.fields
    \/ /\ ~Truthy(Get(item_data.fields, "title", None))
       /\ ~Truthy(Get(item_data.fields, "title_orig", None))

\* C29: map_kodik_item_to_models returns null exactly when the raw item is
\* not a non-empty object, has no 'id' key, or has neither a non-empty title
\* nor a non-empty original title; otherwise it returns a record whose title
\* is the primary title when there is one and the original title when there
\* is none, and whose media_item_data holds no null attribute.
C29_MapperResult ==
    MapperCalled =>
        /\ DOMAIN run.mapped_data = {} <=> GivesUp(run.item_data)
        /\ ~GivesUp(run.item_data) =>
              /\ run.mapped_data.media_item_data.title =
                    Or(Get(run.item_data.fields, "title", None),
                       Get(run.item_data.fields, "title_orig", None))
              /\ \A k \in DOMAIN run.mapped_data.media_item_data :
                    run.mapped_data.media_item_data[k] # None

\* an item with an empty title and an original title, mapped under the
\* original title, without the ids it left empty
C29_Witness ==
    /\ MapperCalled
    /\ "title" \in DOMAIN run.item_data.fields
    /\ ~Truthy(run.item_data.fields.title)
    /\ DOMAIN run.mapped_data # {}
    /\ run.mapped_data.media_item_data.title = "O"
    /\ run.phase = "page"

\* the Kodik links of the item of the last _process_media_item call: those
\* of the item without episode and those of its episodes
LinksOfLast == {l \in sync.tables.links : InScope(l, sync.last.media_item)}

\* every link of the item of the last call was written by that call
AllTouched ==
    \A l \in LinksOfLast :
        /\ l.pk \in sync.last.processed_link_pks
        /\ l.last_seen_at = sync.last.check_start_time

\* C22: with cleanup enabled, after the synchronizer has processed a
\* MediaItem for which the API returned at least one variant, every Kodik
\* link of that item (item-scoped with no episode, or attached to one of its
\* episodes) was created or updated by that call, and every link it found and
\* did not write again has been deleted; a call that got an empty result list
\* counts the item as processed and leaves its links as they were.
C22_CleanupLeavesTouched ==
    sync.last.cleanup /\ sync.last.outcome = "processed" => AllTouched

\* a call with cleanup that wrote links and deleted the link with primary
\* key 1 it found
C22_Witness ==
    /\ sync.last.cleanup
    /\ sync.last.outcome = "processed"
    /\ LinksOfLast # {}
    /\ \A l \in sync.tables.links : l.pk # 1

(* C22 as stated: with cleanup enabled, after the synchronizer has processed *)
(* a MediaItem, every Kodik link of that item was created or updated in this *)
(* run.                                                                      *)
C22_AsStated ==
    sync.last.cleanup /\ Returned(sync.last.outcome) = 1 => AllTouched

\* the variants whose translation id the Translation table holds
KnownOnly(search_results) ==
    SelectSeq(search_results, LAMBDA variant : variant.translation \in sync.translation_map)

\* a _process_media_item call was made in this step
Called == sync'.now # sync.now

\* C23: the synchronizer never creates, modifies or deletes a Translation
\* row, and a variant whose translation id is missing or unknown produces no
\* link, season, episode or screenshot write: the tables a call leaves are
\* those the variants with a known translation alone lead to.
C23_UnknownTranslationSkipped ==
    [][/\ sync'.translation_map = sync.translation_map
       /\ Called /\ sync'.last.outcome = "processed" =>
             sync'.tables = Finished(sync.tables, sync'.last.media_item, sync.cleanup,
                                     SaveVariants(Work(sync.tables), sync'.last.media_item,
                                                  sync.translation_map,
                                                  KnownOnly(sync'.last.response.results),
                                                  sync.now)).tables
       /\ Called /\ sync'.last.outcome # "processed" => sync'.tables = sync.tables]_vars

\* a call that met a variant of an unknown translation and one of a known
\* translation, and wrote the link of the second only
C23_Witness ==
    /\ sync.last.outcome = "processed"
    /\ sync.last.response.results = <<Variants.unknown, Variants.main>>
    /\ LinksOfLast # {}
    /\ \A l \in sync.tables.links : l.translation \in sync.translation_map

\* two links of the same source and translation on the same item without
\* episode, or on the same episode
Duplicates(l, m) ==
    /\ l.pk # m.pk
    /\ l.source = m.source
    /\ l.translation = m.translation
    /\ \/ l.episode = NoEpisode /\ m.episode = NoEpisode /\ l.media_item = m.media_item
       \/ l.episode # NoEpisode /\ l.episode = m.episode

C25_ItemIsolated ==
    [][Called /\ sync'.last.outcome = "raised" =>
          /\ sync'.tables = sync.tables
          /\ sync'.phase = "loop"
          /\ sync'.queue = Tail(sync.queue)
          /\ sync'.processed_count = sync.processed_count
          /\ sync'.total_items = sync.total_items]_vars

\* the second item raised on a season that is no dict, after writes of that
\* call; the links of the first item are in place and the first item is next
C25_Witness ==
    /\ sync.last.outcome = "raised"
    /\ sync.last.media_item = 2
    /\ sync.last.response.results = <<Variants.main, Variants.broken>>
    /\ sync.phase = "loop"
    /\ sync.queue = <<1>>
    /\ \E l \in sync.tables.links : InScope(l, 1)
    /\ \A l \in sync.tables.links : ~InScope(l, 2)

\* a run under --all --skip-recently-updated-meta has built its queryset and
\* has not called _process_media_item yet
Skipping == sync.phase = "loop" /\ sync.skip_hours # NoSkip /\ sync.now = sync.started_at

\* the item was synchronized by an earlier run within the last skip_hours
SynchronizedWithin(pk) ==
    /\ sync.synchronized_at[pk] # NullTime
    /\ sync.synchronized_at[pk] >= sync.started_at - sync.skip_hours

\* C26: under --all with --skip-recently-updated-meta N the items selected
\* are those whose metadata of the Kodik source, which the ingestion writes,
\* has no timestamp or one more than N hours old, and those without such
\* metadata; when the synchronizer last processed the item plays no part.
C26_SkipByMetadata ==
    Skipping =>
        \A pk \in DOMAIN items :
            pk \in sync.selected <=>
                \/ pk \notin DOMAIN metadata
                \/ metadata[pk] = NullTime
                \/ metadata[pk] < sync.started_at - sync.skip_hours

\* a run with the option that selects again an item synchronized within the
\* hour and leaves out an item never synchronized
C26_Witness ==
    /\ Skipping
    /\ \E pk \in sync.selected : SynchronizedWithin(pk)
    /\ \E pk \in DOMAIN items \ sync.selected : sync.synchronized_at[pk] = NullTime

(* C26 as stated: under --all with --skip-recently-updated-meta N an item    *)
(* synchronized by an earlier run within the last N hours is not selected    *)
(* again, and items never synchronized or synchronized longer ago are.       *)
C26_AsStated ==
    Skipping => \A pk \in DOMAIN items : pk \in sync.selected <=> ~SynchronizedWithin(pk)

\* the episodes the season and episode loops may write: of a season from -1
\* on, with a number from 1 on
ValidEpisode(episode) == episode[2] >= -1 /\ episode[3] > 0

\* C27: the synchronizer never creates a Season with a season_number below -1
\* nor an Episode with an episode_number of 0 or less, and no link or
\* screenshot for such a season or episode; seasons -1 and 0 are accepted:
\* the call that met them in a variant of a known translation left their
\* Season rows.
C27_NumbersValid ==
    /\ \A season \in sync.tables.seasons : season[2] >= -1
    /\ \A e \in sync.tables.episodes :
          ValidEpisode(e.key) /\ <<e.key[1], e.key[2]>> \in sync.tables.seasons
    /\ \A l \in sync.tables.links :
          l.episode # NoEpisode =>
             ValidEpisode(l.episode) /\ l.episode \in {e.key : e \in sync.tables.episodes}
    /\ \A shot \in sync.tables.screenshots :
          ValidEpisode(shot.episode) /\ shot.episode \in {e.key : e \in sync.tables.episodes}
    /\ sync.last.outcome = "processed" =>
          \A i \in DOMAIN sync.last.response.results :
             \A j \in DOMAIN sync.last.response.results[i].seasons :
                /\ sync.last.response.results[i].translation \in sync.translation_map
                /\ sync.last.response.results[i].seasons[j].season_num_str \in {"-1", "0"}
                => <<sync.last.media_item,
                     ToInt(sync.last.response.results[i].seasons[j].season_num_str)>>
                      \in sync.tables.seasons

\* a call that met seasons -2, 1, -1 and 0 and episodes 0, 1 and 2: seasons
\* -1, 0 and 1 are stored with links on their episodes
C27_Witness ==
    /\ sync.last.outcome = "processed"
    /\ sync.last.response.results = <<Variants.serial, Variants.specials>>
    /\ {<<sync.last.media_item, n>> : n \in {-1, 0, 1}} \subseteq sync.tables.seasons
    /\ \E l \in sync.tables.links : l.episode = <<sync.last.media_item, -1, 1>>
    /\ \E l \in sync.tables.links : l.episode = <<sync.last.media_item, 0, 1>>
    /\ \E shot \in sync.tables.screenshots : shot.episode[3] = 2

\* C28: no two Screenshot rows share a url, and a Screenshot that exists is
\* neither modified nor moved when its url is reported again, for the same
\* episode or another: every row a call finds is there, as it was, after the
\* call; the episode whose screenshot could not be stored is written with
\* its other screenshots and its link.
C28_ScreenshotsKept ==
    [][/\ \A shot, other \in sync'.tables.screenshots : shot.url = other.url => shot = other
       /\ sync.tables.screenshots \subseteq sync'.tables.screenshots
       /\ \A shot \in sync'.tables.screenshots : StartsWithHttp(shot.url)
       /\ /\ Called
          /\ sync'.last.outcome = "processed"
          /\ sync'.last.response.results = <<Variants.serial>>
          => /\ \E e \in sync'.tables.episodes : e.key = <<sync'.last.media_item, 1, 2>>
             /\ \E shot \in sync'.tables.screenshots : shot.url = "http://s2"
             /\ \E l \in sync'.tables.links :
                   /\ l.episode = <<sync'.last.media_item, 1, 2>>
                   /\ l.last_seen_at = sync'.last.check_start_time]_vars

\* the url http://s1 is stored for episode 1 of a season and was reported
\* for episode 2 as well; episode 2 is stored and holds its other screenshot
C28_Witness ==
    /\ sync.last.outcome = "processed"
    /\ sync.last.response.results[1] = Variants.serial
    /\ [episode |-> <<sync.last.media_item, 1, 1>>, url |-> "http://s1"] \in sync.tables.screenshots
    /\ [episode |-> <<sync.last.media_item, 1, 2>>, url |-> "http://s2"] \in sync.tables.screenshots
    /\ \E e \in sync.tables.episodes : e.key = <<sync.last.media_item, 1, 2>>
    /\ \E l \in sync.tables.links : l.episode = <<sync.last.media_item, 1, 2>>

\* the rows of the tables without the last_seen_at of the links
Rows(tables) ==
    [tables EXCEPT !.links = {[pk |-> l.pk, source |-> l.source, media_item |-> l.media_item,
                               episode |-> l.episode, translation |-> l.translation,
                               player_link |-> l.player_link] : l \in tables.links}]

\* C30: running the synchronizer twice for the same MediaItem with the same
\* API response and the same Translation table leaves the same Season,
\* Episode, Screenshot and MediaSourceLink rows as running it once, with the
\* same keys, player links and titles, apart from the last_seen_at of the
\* links; the second run creates no duplicate.
C30_SecondRunSame ==
    [][Called /\ sync'.last.repeated =>
          /\ Rows(sync'.tables) = Rows(sync.tables)
          /\ \A l \in sync'.tables.links :
                l.pk \in sync'.last.processed_link_pks => l.last_seen_at = sync.now
          /\ \A l, m \in sync'.tables.links : ~Duplicates(l, m)]_vars

\* the second of two runs on the same item with the same response, which
\* carries seasons, episodes, screenshots and links
C30_Witness ==
    /\ sync.last.repeated
    /\ sync.last.outcome = "processed"
    /\ Len(sync.last.response.results) = 2
    /\ sync.last.processed_link_pks # {}
    /\ \E shot \in sync.tables.screenshots : shot.episode[1] = sync.last.media_item
    /\ \E e \in sync.tables.episodes : e.key[1] = sync.last.media_item /\ e.title = "T"

\* the page in hand is numbered below --target-page
BelowTarget == run.target_page # 0 /\ run.page_count < run.target_page

\* C31: pages are numbered from 1 in fetch order; under --target-page P the
\* results of a page numbered below P are fetched but not processed (no item
\* is handled, no store write, no counter change), every result of a page
\* numbered P or above is handled before the page is left, and the pages
\* below P count against --limit-pages like the others.
C31_TargetPage ==
    /\ [](run.requests > 0 /\ ~LoopOver => run.page_count = run.requests)
    /\ [](BelowTarget => run.handled = 0 /\ run.pending = 0 /\ run.delivered = 0
                          /\ Counters = <<0, 0, 0, 0>>)
    /\ [][BelowTarget => UNCHANGED <<items, metadata, genre_table, country_table>>]_vars
    /\ [][Requests /\ run'.phase = "page" /\ ~BelowTarget'
              => run'.pending = run'.results]_vars
    /\ [][run'.pending # run.pending /\ ~Requests
              => run'.pending = run.pending - 1 /\ run'.handled = run.handled + 1]_vars
    /\ [][run.phase = "page" /\ run'.phase # "page" => run.pending = 0]_vars
    /\ [](run.page_limit # NoLimit => run.requests <= run.page_limit)

\* a run under --target-page 2 and --limit-pages 2 that fetched results on
\* page 1, left them alone, handled those of page 2 and ended on the limit
C31_Witness ==
    /\ run.phase = "finished"
    /\ run.target_page = 2
    /\ run.page_limit = 2
    /\ run.requests = 2
    /\ run.skipped = MaxPageLen
    /\ run.results = MaxPageLen
    /\ run.handled = MaxPageLen
    /\ run.total_updated_count > 0
    /\ Truthy(run.next_page_link_from_response)

\* the last search answered with an empty result list
EmptyResults == [kind |-> "results", results |-> << >>]

\* C32: when the search for a MediaItem returns an empty result list, the
\* synchronizer leaves the Season, Episode, Screenshot and MediaSourceLink
\* tables as they were, with and without cleanup, and counts the item as
\* processed.
C32_EmptyResultsKeepLinks ==
    [][Called /\ sync'.last.response = EmptyResults =>
          /\ sync'.tables = sync.tables
          /\ sync'.processed_count = sync.processed_count + 1
          /\ sync'.queue = Tail(sync.queue)]_vars

\* a call with cleanup on an item that holds links got an empty result list:
\* the links are still there, unstamped, and the item is counted
C32_Witness ==
    /\ sync.last.response = EmptyResults
    /\ sync.last.cleanup
    /\ LinksOfLast # {}
    /\ \A l \in LinksOfLast : l.last_seen_at < sync.last.check_start_time
    /\ sync.processed_count > 0

\* the record of the call says of the row pk what the row already holds:
\* equal non-id fields, genres and countries
SameValues(pk) ==
    /\ \A f \in CallFields : items[pk][f] = CallData[f]
    /\ Converged(items[pk].genres, genre_table, CallGenres)
    /\ Converged(items[pk].countries, country_table, CallCountries)

\* C33: for an exact match with a strictly newer timestamp whose mapped
\* field values and genre/country sets equal what is stored, the call leaves
\* the row and the tables as they are, sets the metadata timestamp to the
\* record's and returns the entity with 'skipped'.
C33_NewerEqualSkipped ==
    [][Stepped =>
        \A pk \in ExactRows(items) :
            (/\ pk \in DOMAIN metadata /\ metadata[pk] # NullTime
             /\ call.api_updated_at > metadata[pk]
             /\ SameValues(pk))
            => /\ result'.media_item = pk
               /\ result'.status = "skipped"
               /\ items' = items
               /\ genre_table' = genre_table /\ country_table' = country_table
               /\ metadata'[pk] = call.api_updated_at]_vars

\* C34: when an exact match is handled with fill_empty_fields set and a
\* record timestamp that is not newer than the stored one, the metadata
\* timestamps, the genre and country sets of the entity, the Genre and
\* Country tables, the four external ids and every other row are left as
\* they were; a non-id field changes only if it was empty, and then to the
\* record's value.
C34_FillPathFrame ==
    [][Stepped =>
        \A pk \in ExactRows(items) :
            (/\ call.fill_empty_fields
             /\ pk \in DOMAIN metadata /\ metadata[pk] # NullTime
             /\ call.api_updated_at <= metadata[pk])
            => /\ result'.media_item = pk
               /\ metadata' = metadata
               /\ genre_table' = genre_table /\ country_table' = country_table
               /\ DOMAIN items' = DOMAIN items
               /\ \A other \in DOMAIN items \ {pk} : items'[other] = items[other]
               /\ items'[pk].genres = items[pk].genres
               /\ items'[pk].countries = items[pk].countries
               /\ \A f \in IdFields : items'[pk][f] = items[pk][f]
               /\ \A f \in DOMAIN items[pk] \ IdFields :
                     items'[pk][f] # items[pk][f]
                     => /\ ~Truthy(items[pk][f])
                        /\ f \in CallFields /\ items'[pk][f] = CallData[f]]_vars

\* an older record with another title and a genre the entity does not have
\* filled in the description and nothing else
C34_Witness ==
    /\ pc = "done"
    /\ call.fill_empty_fields
    /\ result.match = "exact"
    /\ result.status = "updated"
    /\ call.api_updated_at < metadata[result.media_item]
    /\ items[result.media_item].description = CallData.description
    /\ items[result.media_item].title # CallData.title
    /\ CallGenres = <<"Action">>
    /\ items[result.media_item].genres = {}
    /\ Len(items) = 2

SubsetStamped(pk) ==
    /\ Stepped
    /\ result'.match = "subset"
    /\ result'.media_item = pk
    /\ metadata'[pk] = call.api_updated_at

\* C36: across any sequence of process_api_item calls the metadata row of a
\* MediaItem is never removed and its timestamp, once it holds T, is never
\* left at a value older than T by a call that resolved by exact match, with
\* or without fill_empty_fields, or that touched another entity; a call that
\* resolved to the entity by subset match leaves it at the record's
\* timestamp, older or not.
C36_TimestampKept ==
    [][\A pk \in DOMAIN metadata :
          /\ pk \in DOMAIN metadata'
          /\ \/ metadata'[pk] >= metadata[pk]
             \/ SubsetStamped(pk)]_vars

\* an older record that matched the second entity exactly and filled its
\* description left the timestamp at MaxTime, beside a first entity whose
\* timestamp is older
C36_Witness ==
    /\ pc = "done"
    /\ result.match = "exact"
    /\ result.status = "updated"
    /\ result.media_item = 2
    /\ call.fill_empty_fields
    /\ call.api_updated_at = 1
    /\ metadata = <<1, MaxTime>>
    /\ Cardinality(IdSet(items[1])) = 2

(* C36 as stated: the metadata timestamp of a MediaItem never decreases,     *)
(* whatever the call: exact match, subset match or fill mode.                *)
C36_AsStated ==
    [][\A pk \in DOMAIN metadata :
          pk \in DOMAIN metadata' /\ metadata'[pk] >= metadata[pk]]_vars

\* C37: a record that process_api_item once accepted with 'created' or
\* 'updated' is never rejected with an error when it is processed again
\* later, whatever records were processed in between: the later call returns
\* 'skipped' or 'updated' for the same entity.
C37_AcceptedStaysAccepted ==
    [][Stepped => \A h \in history.accepted :
                     call.mapped_data = h[1] => /\ result'.status \in {"skipped", "updated"}
                                                /\ result'.media_item = h[2]]_vars

\* the entities all of whose non-null ids the record in hand carries
Spanned == {pk \in DOMAIN items : IdSet(items[pk]) # {} /\ IdSet(items[pk]) \subseteq IdSet(CallIds)}

\* the record's ids span two distinct entities, on different fields
Spans ==
    \E a \in Spanned, b \in Spanned :
        /\ a # b
        /\ {p[1] : p \in IdSet(items[a])} \cap {p[1] : p \in IdSet(items[b])} = {}

\* C38: when the ids of the incoming record span two distinct stored
\* MediaItems (each entity's non-null ids are among the record's, on
\* different fields), process_api_item creates no third entity, changes no
\* id or field of either entity (nor a metadata row or a genre/country
\* table), and returns no entity with an error status, whichever of the two
\* the priority rule selects.
C38_SpanRejected ==
    (pc = "pending" /\ Spans) =>
        \A r \in {ProcessApiItem(Store, call.mapped_data, call.api_updated_at,
                                 call.fill_empty_fields, call.fault)} :
            /\ r.st = Store
            /\ r.media_item = NoEntity
            /\ IsError(r.status)

\* the call has returned an error for a record that spans the two stored
\* entities; the priority rule had selected the older one, which owns the
\* kinopoisk_id, over the newer one, which owns only the shikimori_id
C38_Witness ==
    /\ pc = "done"
    /\ Spans
    /\ Len(items) = 2
    /\ Selected = 1
    /\ items[1].kinopoisk_id # None
    /\ IdSet(items[2]) = {<<"shikimori_id", "s1">>}
    /\ IsError(result.status)
    /\ result.media_item = NoEntity

\* the links the step deleted
Deleted == {l \in sync.tables.links : l.pk \notin {m.pk : m \in sync'.tables.links}}

\* the MediaItem a link belongs to: that of its episode, or its own
LinkItem(l) == IF l.episode # NoEpisode THEN l.episode[1] ELSE l.media_item

\* C39: the synchronizer deletes links only in the cleanup phase of an item
\* whose search succeeded with at least one variant.  Without --cleanup no
\* MediaSourceLink is ever deleted; with --cleanup a failed search request
\* (no response or no 'results') deletes nothing and the item is not counted
\* as processed; the cleanup of one item deletes no link of another
\* MediaItem or of another source, and no Season, Episode or Screenshot row.
C39_DeletesOnlyInCleanup ==
    [][/\ Deleted # {} => /\ Called
                          /\ sync.cleanup
                          /\ sync'.last.outcome = "processed"
                          /\ sync'.last.response.kind = "results"
                          /\ sync'.last.response.results # << >>
       /\ \A l \in Deleted : /\ l.source = "kodik"
                             /\ LinkItem(l) = sync'.last.media_item
       /\ (Called /\ sync'.last.response.kind # "results")
             => /\ sync'.tables = sync.tables
                /\ sync'.processed_count = sync.processed_count
       /\ sync.tables.seasons \subseteq sync'.tables.seasons
       /\ {e.key : e \in sync.tables.episodes} \subseteq {e.key : e \in sync'.tables.episodes}
       /\ sync.tables.screenshots \subseteq sync'.tables.screenshots]_vars

\* a cleanup of the first item has just deleted its stale Kodik link and
\* left the link of the other source, the links of the second item and the
\* seasons, episodes and screenshots in place
C39_Witness ==
    /\ sync.last.cleanup
    /\ sync.last.outcome = "processed"
    /\ sync.last.media_item = 1
    /\ OtherSourceLink \in sync.tables.links
    /\ \E l \in sync.tables.links : l.source = "kodik" /\ LinkItem(l) = 2
    /\ \A l \in sync.tables.links :
          (l.source = "kodik" /\ LinkItem(l) = 1) => l.pk \in sync.last.processed_link_pks
    /\ \E e \in sync.tables.episodes :
          /\ e.key[1] = 1
          /\ \A l \in sync.tables.links : l.episode # e.key
    /\ sync.tables.screenshots # {}

====
